---- MODULE Spec2Model ----
(***************************************************************************)
(* CxxServer core: Tcp::Session, Tcp::Server and Tcp::Client as state      *)
(* machines.  Every io_service loop is driven by one worker thread, so the *)
(* handlers of one loop run one after the other; user threads and the      *)
(* worker threads of other loops interleave with them.                     *)
(***************************************************************************)
EXTENDS Integers, Sequences, FiniteSets, TLC

VARIABLES
    sess,       \* sess[i]: the fields of Session i and the operations pending on its socket
    srv,        \* the fields of the Server
    ioq,        \* ioq[l]: closures posted to io_service l, in order
    hpc,        \* hpc[l]: where the worker thread of loop l stands inside a handler
    wire,       \* wire[i]: bytes the socket of Session i reported written, in order
    accepted,   \* accepted[i]: bytes sendAsync of Session i accepted, in call order
    upc,        \* the user threads: position inside receiveAsync / sendAsync
    calls,      \* numbers of calls made by user threads so far
    mlog,       \* the calls of Server::multicast so far: payload and Sessions concerned
    cli,        \* the fields of the Client and the operations pending on its socket
    cq,         \* closures posted to the Client's io_service, in order
    chpc,       \* where the worker thread of the Client's loop stands inside a handler
    cwire,      \* bytes the Client's socket reported written, in order
    caccepted,  \* bytes the Client's sendAsync accepted, in call order
    crecv,      \* bytes handed to the Client's onReceive, in order
    cupc,       \* the user thread calling the Client's sendAsync
    ccalls,     \* numbers of calls made on the Client by user threads so far
    net,        \* how many bytes of cwire / wire[1] the peer's socket has read
    svc,        \* the fields of a Service, its worker threads and the threads calling it
    tsend,      \* the locals of a send with a timeout in progress, its timer and its write
    hmem        \* a HandlerMemory and the allocations made from it

serverVars == <<sess, srv, ioq, hpc, wire, accepted, upc, calls, mlog>>
clientVars == <<cli, cq, chpc, cwire, caccepted, crecv, cupc, ccalls>>
vars == <<serverVars, clientVars, net, svc, tsend, hmem>>

----------------------------------------------------------------------------
(* Bounds of the model *)

NumSessions == 2        \* Sessions a Server accepts over a run
NumLoops == 2           \* io_service loops of the Service, one worker thread each
MaxBytes == 3          \* bytes handed to sendAsync over a run
MaxPayload == 2        \* longest single payload
MaxRecv == 3           \* bytes a peer delivers to one socket over a run
MaxDisconnectCalls == 2 \* disconnect calls made by user threads
MaxSendCalls == 3       \* sendAsync calls made by user threads
MaxConnectCalls == 2    \* connect calls made on the Client
MaxWire == 5            \* bytes a Client's peer takes over a run
MaxClientSendCalls == 2 \* calls of Client::sendAsync
MaxClientRecv == 2      \* bytes a Client receives over a run

(* Values standing for the socket options and limits a user configures *)
RecvBufSize == 2       \* stands for SO_RCVBUF, the first size of _receive_buff
SendLimits == {0, 2}   \* values given to setSendBuffLimit (0: unlimited)
RecvLimits == {0, 2}   \* values given to setReceiveBuffLimit (0: unlimited)

SessionIds == 1..NumSessions
LoopIds == 0..(NumLoops - 1)

----------------------------------------------------------------------------
(* Error codes: asio::error values a completion can carry *)

NoError == "ok"
IoErrors == {"eof", "broken_pipe"}
OperationAborted == "operation_aborted"
NoBufferSpace == "no_buffer_space"

\* Session::err: the codes that never reach onErr
BenignErrors == {"connection_aborted", "connection_refused", "connection_reset",
                 "eof", "operation_aborted"}

\* asio::ssl::error::stream_truncated: the peer closed without a TLS shutdown
StreamTruncated == "stream_truncated"

\* a handshake the peer's certificate or protocol failed: an OpenSSL error
HandshakeFailed == "handshake_failed"

\* the codes of asio::error::get_ssl_category(): the errors OpenSSL reports
SslCategory == {"decryption_failed_or_bad_record_mac", "protocol_is_shutdown",
                "wrong_version_number", HandshakeFailed}

\* err.category() == asio::error::get_ssl_category()
IsSslCategory(code) == code \in SslCategory

\* ERR_GET_REASON(err.value()) against the three reasons SSL::Session::err skips
SkippedReason(code) ==
    \/ code = "decryption_failed_or_bad_record_mac"
    \/ code = "protocol_is_shutdown"
    \/ code = "wrong_version_number"

\* every code a completion or a call can carry to an err function
ErrorCodes ==
    BenignErrors \cup {StreamTruncated} \cup SslCategory
        \cup {"broken_pipe", "timed_out", NoBufferSpace}

----------------------------------------------------------------------------
(* Helpers on sequences *)

Range(n, m) == [k \in 1..(m - n + 1) |-> n + k - 1]

Zeros(n) == [k \in 1..n |-> 0]

Tail0(q, off) == SubSeq(q, off + 1, Len(q))

IsPrefix(p, q) == Len(p) <= Len(q) /\ SubSeq(q, 1, Len(p)) = p

----------------------------------------------------------------------------
(* Service::getIoService: round robin over the loops.  The Server takes    *)
(* the first loop handed out, the k-th Session it constructs the (k+1)-th. *)

getIoService(rr_idx) == (rr_idx + 1) % NumLoops

ServerLoop == getIoService(0)

SessionLoop(i) == getIoService(i)

----------------------------------------------------------------------------
(* Tcp::Session.  A Session record holds the members of the class, the     *)
(* state of its socket (open, and the asynchronous operations issued on it *)
(* whose completion handler has not run yet) and counters of the callbacks *)
(* it has invoked.                                                         *)

Session_Session(send_limit, receive_limit) ==
    [ connected |-> FALSE,
      bytes_pending |-> 0, bytes_sending |-> 0, bytes_sent |-> 0, bytes_received |-> 0,
      receiving |-> FALSE, receive_limit |-> receive_limit, receive_buff |-> 0,
      sending |-> FALSE, send_limit |-> send_limit,
      send_buff_main |-> <<>>, send_buff_flush |-> <<>>, send_flush_offset |-> 0,
      open |-> FALSE,          \* _socket is open
      writes |-> <<>>,         \* buffers of the async_write_some operations outstanding
      reads |-> 0,             \* number of async_read_some operations outstanding
      onConnect |-> 0, onDisconnect |-> 0, onSend |-> 0, onError |-> 0,
      tls |-> FALSE,           \* the object is an SSL::Session
      handshaked |-> FALSE,
      handshake |-> "none",    \* async_handshake: none, pending, then ok or failed
      onHandshaked |-> 0,
      server |-> TRUE ]        \* _server holds the Server

\* Session::resetServer: no function of the Session or the Server calls it
Session_resetServer(s) == [s EXCEPT !.server = FALSE]

\* Session::err
Session_err(s, code) ==
    IF code \in BenignErrors THEN s ELSE [s EXCEPT !.onError = @ + 1]

\* SSL::Session::err skipping only the codes Tcp::Session::err skips
SSLSession_err_plain(s, code) ==
    IF code \in BenignErrors THEN s ELSE [s EXCEPT !.onError = @ + 1]

\* SSL::Session::err
SSLSession_err(s, code) ==
    IF code \in BenignErrors \/ code = StreamTruncated THEN s
    ELSE IF IsSslCategory(code) /\ SkippedReason(code) THEN s
    ELSE [s EXCEPT !.onError = @ + 1]

\* this->err(code): err is virtual and SSL::Session overrides it
Session_errVirtual(s, code) ==
    IF s.tls THEN SSLSession_err(s, code) ELSE Session_err(s, code)

\* Session::clearBuffs
Session_clearBuffs(s) ==
    [s EXCEPT !.send_buff_main = <<>>, !.send_buff_flush = <<>>,
              !.send_flush_offset = 0, !.bytes_pending = 0, !.bytes_sending = 0]

\* Session::tryReceive, up to and including the async_read_some it issues
Session_tryReceive(s) ==
    IF s.receiving \/ ~s.connected THEN s
    ELSE [s EXCEPT !.receiving = TRUE, !.reads = @ + 1]

\* Session_swapBuffs forgetting to reset _bytes_pending
Session_swapBuffs_stalePending(s) ==
    [s EXCEPT !.send_buff_flush = s.send_buff_main, !.send_buff_main = s.send_buff_flush,
              !.send_flush_offset = 0,
              !.bytes_sending = @ + Len(s.send_buff_main)]

\* Session::trySend: the swap of the two send buffers under _send_lock
Session_swapBuffs(s) ==
    [s EXCEPT !.send_buff_flush = s.send_buff_main, !.send_buff_main = s.send_buff_flush,
              !.send_flush_offset = 0,
              !.bytes_pending = 0,
              !.bytes_sending = @ + Len(s.send_buff_main)]

\* Session_writeBuffer ignoring _send_flush_offset
Session_writeBuffer_noOffset(s) == s.send_buff_flush

\* Session::trySend: the asio::buffer handed to async_write_some
Session_writeBuffer(s) == Tail0(s.send_buff_flush, s.send_flush_offset)

\* Session::trySend, up to and including the async_write_some it issues
Session_trySend(s) ==
    IF s.sending \/ ~s.connected THEN s
    ELSE LET t == IF s.send_buff_flush = <<>> THEN Session_swapBuffs(s) ELSE s
         IN  IF t.send_buff_flush = <<>> THEN t      \* onEmpty()
             ELSE [t EXCEPT !.sending = TRUE,
                            !.writes = Append(@, Session_writeBuffer(t))]

\* Session_disconnectHandler without the second test of isConnected
Session_disconnectHandler_noRecheck(s) ==
    Session_clearBuffs(
        [s EXCEPT !.open = FALSE,
                  !.connected = FALSE, !.receiving = FALSE, !.sending = FALSE,
                  !.onDisconnect = @ + 1])

\* Session::disconnect: the closure it posts, up to the unregister it dispatches
Session_disconnectHandler(s) ==
    IF ~s.connected THEN s
    ELSE Session_clearBuffs(
            [s EXCEPT !.open = FALSE,
                      !.connected = FALSE, !.receiving = FALSE, !.sending = FALSE,
                      !.onDisconnect = @ + 1])

\* Session_disconnect posting its closure whatever isConnected says
Session_disconnect_always(s) == TRUE

\* Session::disconnect: the test of isConnected on the caller's thread.  The
\* answer is what the call returns; the closure is posted when it is true.
Session_disconnect(s) == s.connected

\* Session::connect
Session_connect(s) ==
    Session_tryReceive(
        [s EXCEPT !.receive_buff = RecvBufSize,
                  !.bytes_sending = 0, !.bytes_sent = 0,
                  !.bytes_pending = 0, !.bytes_received = 0,
                  !.connected = TRUE,
                  !.onConnect = @ + 1])


\* SSL::Session::connect, up to and including the async_handshake it issues
SSLSession_connect(s) ==
    [Session_tryReceive(
        [s EXCEPT !.receive_buff = RecvBufSize,
                  !.bytes_sending = 0, !.bytes_sent = 0,
                  !.bytes_pending = 0, !.bytes_received = 0,
                  !.connected = TRUE])
     EXCEPT !.onConnect = @ + 1, !.handshake = "pending"]

\* connect(), a virtual function
Session_connectVirtual(s) ==
    IF s.tls THEN SSLSession_connect(s) ELSE Session_connect(s)

\* SSLSession_handshakeHandler leaving the Session connected after a failure
SSLSession_handshakeHandler_noDisconnect(s, err) ==
    LET a == [s EXCEPT !.handshake = IF err = NoError THEN "ok" ELSE "failed"]
    IN  IF a.handshaked THEN <<a, FALSE, FALSE>>
        ELSE IF err = NoError
        THEN <<Session_tryReceive([a EXCEPT !.handshaked = TRUE, !.onHandshaked = @ + 1]),
               TRUE, FALSE>>
        ELSE <<SSLSession_err(a, err), FALSE, FALSE>>

\* SSL::Session::connect: async_handshake_handler.  The answer is <<session,
\* Server::onHandshaked is called, disconnect(false) posts its closure>>
SSLSession_handshakeHandler(s, err) ==
    LET a == [s EXCEPT !.handshake = IF err = NoError THEN "ok" ELSE "failed"]
    IN  IF a.handshaked THEN <<a, FALSE, FALSE>>
        ELSE IF err = NoError
        THEN <<Session_tryReceive([a EXCEPT !.handshaked = TRUE, !.onHandshaked = @ + 1]),
               TRUE, FALSE>>
        ELSE <<SSLSession_err(a, err), FALSE, Session_disconnect(a)>>

\* Session_sendAsyncLocked without the test of _send_limit
Session_sendAsyncLocked_noLimit(s, payload) ==
    LET m == s.send_buff_main \o payload
    IN  <<[s EXCEPT !.send_buff_main = m, !.bytes_pending = Len(m)],
          TRUE, s.send_buff_main = <<>> \/ s.send_buff_flush = <<>>>>

\* Session::sendAsync: the block under _send_lock; the answer is <<session, accepted, schedule>>
Session_sendAsyncLocked(s, payload) ==
    LET multiple_sends == s.send_buff_main = <<>> \/ s.send_buff_flush = <<>>
    IN  IF (Len(s.send_buff_main) + Len(payload)) > s.send_limit /\ s.send_limit > 0
        THEN <<Session_errVirtual(s, NoBufferSpace), FALSE, FALSE>>
        ELSE LET m == s.send_buff_main \o payload
             IN  <<[s EXCEPT !.send_buff_main = m, !.bytes_pending = Len(m)],
                   TRUE, multiple_sends>>

\* Session::trySend: the completion handler of async_write_some, up to the
\* update of the Server's _bytes_sent
Session_onWrittenBegin(s, size) ==
    LET a == [s EXCEPT !.sending = FALSE]
    IN  IF ~a.connected \/ size = 0 THEN a
        ELSE [a EXCEPT !.bytes_sending = @ - size, !.bytes_sent = @ + size]

\* the completion handler of trySend not calling trySend again
Session_onWrittenEnd_once(s, err, size) ==
    LET off == s.send_flush_offset + size
        drained == off = Len(s.send_buff_flush)
        b == IF size > 0
             THEN [s EXCEPT !.send_flush_offset = IF drained THEN 0 ELSE off,
                            !.send_buff_flush = IF drained THEN <<>> ELSE @,
                            !.onSend = @ + 1]
             ELSE s
    IN  IF err = NoError THEN b
        ELSE Session_disconnectHandler(Session_errVirtual(b, err))

\* Session::trySend: the completion handler of async_write_some, after the
\* update of the Server's _bytes_sent
Session_onWrittenEnd(s, err, size) ==
    LET off == s.send_flush_offset + size
        drained == off = Len(s.send_buff_flush)
        b == IF size > 0
             THEN [s EXCEPT !.send_flush_offset = IF drained THEN 0 ELSE off,
                            !.send_buff_flush = IF drained THEN <<>> ELSE @,
                            !.onSend = @ + 1]
             ELSE s
    IN  IF err = NoError THEN Session_trySend(b)
        ELSE Session_disconnectHandler(Session_errVirtual(b, err))

\* Session::tryReceive: the completion handler of async_read_some, up to onReceived
Session_onReadBegin(s, size) ==
    LET a == [s EXCEPT !.receiving = FALSE]
    IN  IF ~a.connected \/ size = 0 THEN a
        ELSE [a EXCEPT !.bytes_received = @ + size]

\* Session_onReadEnd without the test of _receive_limit
Session_onReadEnd_noLimit(s, err, size) ==
    LET b == IF size > 0 /\ s.receive_buff = size THEN [s EXCEPT !.receive_buff = size * 2] ELSE s
    IN  IF err = NoError THEN Session_tryReceive(b)
        ELSE Session_disconnectHandler(Session_errVirtual(b, err))

\* Session::tryReceive: the completion handler of async_read_some, after onReceived
Session_onReadEnd(s, err, size) ==
    LET full == size > 0 /\ s.receive_buff = size
    IN  IF full /\ size * 2 > s.receive_limit /\ s.receive_limit > 0
        THEN Session_disconnectHandler(Session_errVirtual(s, NoBufferSpace))
        ELSE LET b == IF full THEN [s EXCEPT !.receive_buff = size * 2] ELSE s
             IN  IF err = NoError THEN Session_tryReceive(b)
                 ELSE Session_disconnectHandler(Session_errVirtual(b, err))

----------------------------------------------------------------------------
(* Tcp::Server.  `sessions` is the registry _sessions, `session` the slot   *)
(* _session holding the Session the outstanding async_accept will fill (0: *)
(* empty), `accepting` the number of async_accept operations outstanding.  *)
(* `constructed` counts the Sessions newSession has made; `pool` is the    *)
(* number of connections that arrive over the run.                         *)

Server_Server(pool) ==
    [ started |-> FALSE, acceptor_open |-> FALSE, accepting |-> 0,
      session |-> 0, constructed |-> 0, pool |-> pool, sessions |-> {},
      bytes_pending |-> 0, bytes_received |-> 0, bytes_sent |-> 0,
      onStart |-> 0, onStop |-> 0, onConnect |-> 0, onDisconnect |-> 0, onErr |-> 0,
      onHandshaked |-> 0,
      crashed |-> FALSE ]      \* the process was ended by an assert or a fault

\* Server::err
Server_err(v, code) ==
    IF code \in BenignErrors THEN v ELSE [v EXCEPT !.onErr = @ + 1]

\* Server::accept: the dispatched handler; it runs inline, accept being called on the Server's loop
Server_accept_unguarded(v) ==
    IF v.constructed < v.pool
    THEN [v EXCEPT !.session = v.constructed + 1, !.constructed = @ + 1,
                   !.accepting = @ + 1]
    ELSE [v EXCEPT !.session = 0, !.accepting = @ + 1]

Server_accept(v) ==
    IF ~v.started THEN v
    ELSE IF v.constructed < v.pool
         THEN [v EXCEPT !.session = v.constructed + 1, !.constructed = @ + 1,
                        !.accepting = @ + 1]
         ELSE [v EXCEPT !.session = 0, !.accepting = @ + 1]

\* Server::registerSession
Server_registerSession(v) == [v EXCEPT !.sessions = @ \cup {v.session}]

\* Server_unregisterSession erasing nothing
Server_unregisterSession_keep(v, i) == v

\* Server::unregisterSession
Server_unregisterSession(v, i) == [v EXCEPT !.sessions = @ \ {i}]

\* Server::start: the posted handler
Server_startHandler(v) ==
    IF v.started THEN v
    ELSE Server_accept([v EXCEPT !.acceptor_open = TRUE,
                                 !.bytes_pending = 0, !.bytes_received = 0, !.bytes_sent = 0,
                                 !.started = TRUE,
                                 !.onStart = @ + 1])

\* Server::stop and Server::start: the test of isStarted on the caller's thread.
\* The answer is what the call returns; the handler is posted when it is true.
Server_stop(v) == v.started

Server_start(v) == ~v.started

\* Server::stop: the posted handler, apart from what disconnectAll posts
Server_stopHandler(v) ==
    IF ~v.started THEN v
    ELSE [v EXCEPT !.acceptor_open = FALSE, !.session = 0,
                   !.started = FALSE,
                   !.bytes_pending = 0, !.onStop = @ + 1]

----------------------------------------------------------------------------
(* Tcp::Client.  As for a Session the record holds the members, the state  *)
(* of the socket and callback counters.  An operation on the socket is     *)
(* marked aborted once cancel or close was called while it was outstanding.*)
(* bytes_sending is a uint64_t and only ever added to and subtracted from: *)
(* the field holds an integer standing for its value modulo 2^64.          *)

Client_Client(send_buff_limit, receive_buff_limit) ==
    [ connecting |-> FALSE, connected |-> FALSE,
      bytes_pending |-> 0, bytes_sending |-> 0, bytes_sent |-> 0, bytes_received |-> 0,
      receiving |-> FALSE, receive_buff_limit |-> receive_buff_limit, receive_buff |-> 0,
      sending |-> FALSE, send_buff_limit |-> send_buff_limit,
      send_buff_main |-> <<>>, send_buff_flush |-> <<>>, send_flush_offset |-> 0,
      open |-> FALSE,          \* _socket is open
      linked |-> FALSE,        \* a connect on the open socket has succeeded
      connects |-> 0,          \* number of async_connect operations outstanding
      writes |-> <<>>,         \* async_write_some operations outstanding: [buf, aborted, conn]
      reads |-> <<>>,          \* async_read_some operations outstanding: [aborted, conn]
      established |-> 0,       \* connections established so far
      onConnect |-> 0, onDisconnect |-> 0, onSend |-> 0, onError |-> 0,
      tls |-> FALSE,           \* the object is an SSL::Client
      handshaking |-> FALSE, handshaked |-> FALSE,
      handshakes |-> 0,        \* number of async_handshake operations outstanding
      shutdowns |-> 0,         \* number of async_shutdown operations outstanding
      onHandshaked |-> 0 ]

\* SSLClient_isReady answering for the connection alone
SSLClient_isReady_connected(c) == c.connected

\* SSL::Client::isReady
SSLClient_isReady(c) == c.connected /\ c.handshaked

\* Client::isReady, a virtual function
Client_isReady(c) == IF c.tls THEN SSLClient_isReady(c) ELSE c.connected

\* Client::err
Client_err(c, code) ==
    IF code \in BenignErrors THEN c ELSE [c EXCEPT !.onError = @ + 1]

\* SSL::Client::err
SSLClient_err(c, code) ==
    IF code \in BenignErrors \/ code = StreamTruncated THEN c
    ELSE IF IsSslCategory(code) /\ SkippedReason(code) THEN c
    ELSE [c EXCEPT !.onError = @ + 1]

\* this->err(code): err is virtual and SSL::Client overrides it
Client_errVirtual(c, code) ==
    IF c.tls THEN SSLClient_err(c, code) ELSE Client_err(c, code)

\* socket().cancel() and socket().close(): every outstanding operation is aborted
Client_cancel(c) ==
    [c EXCEPT !.writes = [k \in DOMAIN @ |-> [@[k] EXCEPT !.aborted = TRUE]],
              !.reads = [k \in DOMAIN @ |-> [@[k] EXCEPT !.aborted = TRUE]]]

\* Client::clearBuffs
Client_clearBuffs(c) ==
    [c EXCEPT !.send_buff_main = <<>>, !.send_buff_flush = <<>>,
              !.bytes_sending = 0, !.bytes_pending = 0, !.send_flush_offset = 0]

\* Client::disconnect
Client_disconnect(c) ==
    IF ~c.connected THEN c
    ELSE Client_clearBuffs(
            [Client_cancel(c) EXCEPT !.open = FALSE, !.linked = FALSE,
                                     !.connecting = FALSE, !.connected = FALSE,
                                     !.receiving = FALSE, !.sending = FALSE,
                                     !.onDisconnect = @ + 1])

\* SSL::Client::disconnect; it ends in Tcp::Client::disconnect
SSLClient_disconnect(c) ==
    IF ~c.connected \/ c.connecting \/ c.handshaking THEN c
    ELSE Client_disconnect([c EXCEPT !.handshaked = FALSE, !.handshaking = FALSE])

\* SSLClient_disconnectHandler closing the socket at once, as Tcp::Client does
SSLClient_disconnectHandler_closes(c) ==
    IF ~c.connected \/ c.connecting \/ c.handshaking THEN c
    ELSE Client_disconnect(Client_cancel(c))

\* SSL::Client::disconnectAsync: disconnect_handler, up to the async_shutdown it issues
SSLClient_disconnectHandler(c) ==
    IF ~c.connected \/ c.connecting \/ c.handshaking THEN c
    ELSE [Client_cancel(c) EXCEPT !.shutdowns = @ + 1]

\* disconnectAsync(true), a virtual function, called from a handler of the
\* Client's loop: the dispatched closure runs at once
Client_disconnectAsyncInline(c) ==
    IF c.tls THEN SSLClient_disconnectHandler(c)
    ELSE IF ~c.connected \/ c.connecting THEN c
    ELSE Client_disconnect(Client_cancel(c))

\* Client::tryReceive, up to and including the async_read_some it issues
Client_tryReceive(c) ==
    IF c.receiving \/ ~Client_isReady(c) THEN c
    ELSE [c EXCEPT !.receiving = TRUE, !.reads = Append(@, [aborted |-> FALSE, conn |-> c.established])]

\* Client::trySend: the swap of the two send buffers under _send_lock
Client_swapBuffs(c) ==
    [c EXCEPT !.send_buff_flush = c.send_buff_main, !.send_buff_main = c.send_buff_flush,
              !.send_flush_offset = 0,
              !.bytes_pending = 0,
              !.bytes_sending = @ + Len(c.send_buff_main)]

\* Client::trySend: the buffer handed to asyncWriteSome
Client_writeBuffer(c) == c.send_buff_flush

\* Client::trySend, up to and including the write it issues
Client_trySend(c) ==
    IF c.sending \/ ~Client_isReady(c) THEN c
    ELSE LET t == IF c.send_buff_flush = <<>> THEN Client_swapBuffs(c) ELSE c
         IN  IF t.send_buff_flush = <<>> THEN t      \* onEmpty()
             ELSE [t EXCEPT !.sending = TRUE,
                            !.writes = Append(@, [buf |-> Client_writeBuffer(t),
                                                  aborted |-> FALSE,
                                                  conn |-> t.established])]

\* Client::trySend: the completion handler of the write
Client_onWritten(c, err, size) ==
    LET a == [c EXCEPT !.sending = FALSE]
    IN  IF ~Client_isReady(a) THEN a
        ELSE LET off == a.send_flush_offset + size
                 drained == off = Len(a.send_buff_flush)
                 b == IF size > 0
                      THEN [a EXCEPT !.bytes_sending = @ - size,
                                     !.bytes_sent = @ + size,
                                     !.send_flush_offset = IF drained THEN 0 ELSE off,
                                     !.send_buff_flush = IF drained THEN <<>> ELSE @,
                                     !.onSend = @ + 1]
                      ELSE a
             IN  IF err = NoError THEN Client_trySend(b)
                 ELSE Client_disconnectAsyncInline(Client_errVirtual(b, err))

\* Client::tryReceive: the completion handler of the read, up to onReceive
Client_onReadBegin(c, size) ==
    LET a == [c EXCEPT !.receiving = FALSE]
    IN  IF ~Client_isReady(a) \/ size = 0 THEN a
        ELSE [a EXCEPT !.bytes_received = @ + size]

\* Client::tryReceive: the completion handler of the read, after onReceive
Client_onReadEnd(c, err, size) ==
    LET full == size > 0 /\ c.receive_buff = size
    IN  IF full /\ size * 2 > c.receive_buff_limit /\ c.receive_buff_limit > 0
        THEN Client_disconnectAsyncInline(Client_errVirtual(c, NoBufferSpace))
        ELSE LET b == IF full THEN [c EXCEPT !.receive_buff = 2 * size] ELSE c
             IN  IF err = NoError THEN Client_tryReceive(b)
                 ELSE Client_disconnectAsyncInline(Client_errVirtual(b, err))

\* Client::sendAsync: the block under _send_lock; the answer is <<client, accepted, schedule>>
Client_sendAsyncLocked(c, payload) ==
    IF Len(c.send_buff_main) + Len(payload) > c.send_buff_limit /\ c.send_buff_limit > 0
    THEN <<Client_errVirtual(c, NoBufferSpace), FALSE, FALSE>>
    ELSE LET multiple_send_required == c.send_buff_main = <<>> \/ c.send_buff_flush = <<>>
             m == c.send_buff_main \o payload
         IN  <<[c EXCEPT !.send_buff_main = m, !.bytes_pending = Len(m)],
               TRUE, multiple_send_required>>

\* Client::connectAsync: the posted handler, up to and including async_connect
Client_connectHandler(c) ==
    IF c.connected \/ c.connecting THEN c
    ELSE [c EXCEPT !.connecting = TRUE, !.open = TRUE, !.connects = @ + 1]

\* Client::connectAsync: connected_handler, the completion handler of async_connect
Client_onConnected(c, err) ==
    LET a == [c EXCEPT !.connecting = FALSE]
    IN  IF a.connected \/ a.connecting THEN a
        ELSE IF err = NoError
        THEN Client_tryReceive(
                 [a EXCEPT !.receive_buff = RecvBufSize,
                           !.bytes_pending = 0, !.bytes_sending = 0,
                           !.bytes_received = 0, !.bytes_sent = 0,
                           !.connected = TRUE,
                           !.established = @ + 1,
                           !.onConnect = @ + 2])     \* onConnect() before and after tryReceive()
        ELSE [Client_errVirtual(a, err) EXCEPT !.onDisconnect = @ + 1]

\* SSL::Client::connect / connectAsync / connectEndpoint: the test of the flags
SSLClient_busy(c) == c.connected \/ c.handshaked \/ c.handshaking \/ c.connecting

\* SSL::Client::connectAsync: connect_handler, up to and including async_connect
SSLClient_connectHandler(c) ==
    IF SSLClient_busy(c) THEN c
    ELSE [c EXCEPT !.connecting = TRUE, !.open = TRUE, !.connects = @ + 1]

\* SSL::Client::connect and connectEndpoint: from the socket options to onConnect
SSLClient_connected(c) ==
    [c EXCEPT !.receive_buff = RecvBufSize,
              !.bytes_pending = 0, !.bytes_sending = 0,
              !.bytes_received = 0, !.bytes_sent = 0,
              !.connected = TRUE,
              !.established = @ + 1,
              !.onConnect = @ + 1]

\* SSL::Client::connectEndpoint, the completion handler of async_connect
SSLClient_connectEndpoint(c, err) ==
    LET a == [c EXCEPT !.connecting = FALSE]
    IN  IF SSLClient_busy(a) THEN a
        ELSE IF err # NoError THEN [Client_errVirtual(a, err) EXCEPT !.onDisconnect = @ + 1]
        ELSE [SSLClient_connected(a) EXCEPT !.handshaking = TRUE, !.handshakes = @ + 1]

\* SSL::Client::connectEndpoint: handshake_handler
SSLClient_handshakeHandler(c, err) ==
    LET a == [c EXCEPT !.handshaking = FALSE]
    IN  IF a.handshaked THEN a
        ELSE IF err # NoError THEN SSLClient_disconnectHandler(Client_errVirtual(a, err))
        ELSE Client_tryReceive([a EXCEPT !.handshaked = TRUE, !.onHandshaked = @ + 1])

----------------------------------------------------------------------------
(* The worker threads.  A closure is a record naming what was posted and   *)
(* for which Session; hpc[l] is Idle between two handlers of loop l.       *)

Closure(kind, i) == [kind |-> kind, sess |-> i]

Idle == [pc |-> "idle", sess |-> 0, data |-> <<>>, err |-> NoError, tmp |-> 0]

Post(q, l, c) == [q EXCEPT ![l] = Append(@, c)]

Pop(q, l) == [q EXCEPT ![l] = Tail(@)]

HeadIs(l, kind) ==
    /\ hpc[l] = Idle
    /\ ioq[l] # <<>>
    /\ Head(ioq[l]).kind = kind

\* What follows a step of Session i's loop that leaves the Session as t: when the
\* step disconnected it (Session::disconnect's closure ran), Server::onDisconnect
\* is called and unregister is dispatched to the Server's loop - run at once
\* when that is the loop the closure runs on, posted otherwise.
SessionStep(i, t, q, v) ==
    LET gone == sess[i].connected /\ ~t.connected
        inline == SessionLoop(i) = ServerLoop
        w == IF gone THEN [v EXCEPT !.onDisconnect = @ + 1] ELSE v
    IN  /\ sess' = [sess EXCEPT ![i] = t]
        /\ srv' = IF gone /\ inline THEN Server_unregisterSession(w, i) ELSE w
        /\ ioq' = IF gone /\ ~inline THEN Post(q, ServerLoop, Closure("unregister", i)) ELSE q

\* The closure posted by Session::sendAsync
RunTrySend(i) ==
    /\ HeadIs(SessionLoop(i), "trySend")
    /\ Head(ioq[SessionLoop(i)]).sess = i
    /\ SessionStep(i, Session_trySend(sess[i]), Pop(ioq, SessionLoop(i)), srv)
    /\ UNCHANGED <<hpc, wire, accepted, upc, calls, mlog>>

\* The closure posted by Session::disconnect
RunDisconnect(i) ==
    /\ HeadIs(SessionLoop(i), "disconnect")
    /\ Head(ioq[SessionLoop(i)]).sess = i
    /\ SessionStep(i, Session_disconnectHandler(sess[i]), Pop(ioq, SessionLoop(i)), srv)
    /\ UNCHANGED <<hpc, wire, accepted, upc, calls, mlog>>

\* The unregister closure dispatched by Session::disconnect's closure
RunUnregister ==
    /\ HeadIs(ServerLoop, "unregister")
    /\ srv' = Server_unregisterSession(srv, Head(ioq[ServerLoop]).sess)
    /\ ioq' = Pop(ioq, ServerLoop)
    /\ UNCHANGED <<sess, hpc, wire, accepted, upc, calls, mlog>>

\* Server::accept: the completion handler of async_accept
AcceptComplete(err) ==
    /\ hpc[ServerLoop] = Idle
    /\ srv.accepting > 0
    /\ err = NoError => upc.mcast = {}     \* registerSession waits for _sessions_lock
    /\ LET i == srv.session
           v == [srv EXCEPT !.accepting = @ - 1]
       IN  IF err = NoError
           THEN /\ srv.acceptor_open
                /\ i # 0
                /\ sess' = [sess EXCEPT ![i] = Session_connectVirtual([@ EXCEPT !.open = TRUE])]
                /\ srv' = Server_accept([Server_registerSession(v) EXCEPT !.onConnect = @ + 1])
           ELSE /\ err = IF srv.acceptor_open THEN err ELSE OperationAborted
                /\ sess' = sess
                /\ srv' = Server_accept(Server_err(v, err))
    /\ UNCHANGED <<ioq, hpc, wire, accepted, upc, calls, mlog>>

\* An outstanding async_write_some of Session i completes: `size` bytes of its
\* buffer went to the socket.  A write cancelled by close reports
\* operation_aborted, unless it had completed before the close.
WriteOutcomes(s) ==
    LET ok == {<<NoError, n>> : n \in 1..Len(Head(s.writes))}
    IN  IF s.open THEN ok \cup {<<e, 0>> : e \in IoErrors}
        ELSE ok \cup {<<OperationAborted, 0>>}

\* The handler up to the load of the Server's _bytes_sent.  The counter is a
\* plain uint64_t that the loops of all Sessions add to: the load and the store
\* of `_server->_bytes_sent += size` are two steps.
WriteComplete(i, o) ==
    /\ hpc[SessionLoop(i)] = Idle
    /\ sess[i].writes # <<>>
    /\ LET s == [sess[i] EXCEPT !.writes = Tail(@)]
           a == Session_onWrittenBegin(s, o[2])
           done == SubSeq(Head(sess[i].writes), 1, o[2])
       IN  /\ wire' = [wire EXCEPT ![i] = @ \o done]
           /\ IF ~s.connected
              THEN /\ sess' = [sess EXCEPT ![i] = a]
                   /\ UNCHANGED <<srv, ioq, hpc>>
              ELSE IF o[2] = 0
              THEN /\ SessionStep(i, Session_onWrittenEnd(a, o[1], 0), ioq, srv)
                   /\ UNCHANGED hpc
              ELSE /\ sess' = [sess EXCEPT ![i] = a]
                   /\ hpc' = [hpc EXCEPT ![SessionLoop(i)] =
                                 [pc |-> "bytes_sent", sess |-> i, data |-> done,
                                  err |-> o[1], tmp |-> srv.bytes_sent]]
                   /\ UNCHANGED <<srv, ioq>>
    /\ UNCHANGED <<accepted, upc, calls, mlog>>

\* The store of the Server's _bytes_sent and the rest of the handler
WriteCounted(l) ==
    /\ hpc[l].pc = "bytes_sent"
    /\ SessionStep(hpc[l].sess,
                   Session_onWrittenEnd(sess[hpc[l].sess], hpc[l].err, Len(hpc[l].data)), ioq,
                   [srv EXCEPT !.bytes_sent = hpc[l].tmp + Len(hpc[l].data)])
    /\ hpc' = [hpc EXCEPT ![l] = Idle]
    /\ UNCHANGED <<wire, accepted, upc, calls, mlog>>

\* An outstanding async_read_some of Session i completes with `size` bytes.
ReadOutcomes(s) ==
    IF s.open
    THEN {<<NoError, n>> : n \in 1..(IF s.receive_buff < MaxRecv - s.bytes_received
                                     THEN s.receive_buff ELSE MaxRecv - s.bytes_received)}
         \cup {<<e, 0>> : e \in IoErrors}
    ELSE {<<OperationAborted, 0>>}

\* The handler up to the load of the Server's _bytes_received
ReadComplete(i, err, data) ==
    /\ hpc[SessionLoop(i)] = Idle
    /\ sess[i].reads > 0
    /\ LET s == [sess[i] EXCEPT !.reads = @ - 1]
           a == Session_onReadBegin(s, Len(data))
       IN  IF ~s.connected
           THEN /\ sess' = [sess EXCEPT ![i] = a]
                /\ UNCHANGED <<srv, ioq, hpc>>
           ELSE IF data = <<>>
           THEN /\ SessionStep(i, Session_onReadEnd(a, err, 0), ioq, srv)
                /\ UNCHANGED hpc
           ELSE /\ sess' = [sess EXCEPT ![i] = a]
                /\ hpc' = [hpc EXCEPT ![SessionLoop(i)] =
                              [pc |-> "bytes_received", sess |-> i, data |-> data,
                               err |-> err, tmp |-> srv.bytes_received]]
                /\ UNCHANGED <<srv, ioq>>
    /\ UNCHANGED <<wire, accepted, upc, calls, mlog>>

\* The store of the Server's _bytes_received; onReceived is called.  Inside
\* onReceived tmp counts the sendAsync calls the callback has made.
ReadCounted(l) ==
    /\ hpc[l].pc = "bytes_received"
    /\ srv' = [srv EXCEPT !.bytes_received = hpc[l].tmp + Len(hpc[l].data)]
    /\ hpc' = [hpc EXCEPT ![l] = [@ EXCEPT !.pc = "onReceived", !.tmp = 0]]
    /\ UNCHANGED <<sess, ioq, wire, accepted, upc, calls, mlog>>

\* onReceived returns: the rest of the handler
ReadResume(l) ==
    /\ hpc[l].pc = "onReceived"
    /\ SessionStep(hpc[l].sess,
                   Session_onReadEnd(sess[hpc[l].sess], hpc[l].err, Len(hpc[l].data)), ioq, srv)
    /\ hpc' = [hpc EXCEPT ![l] = Idle]
    /\ UNCHANGED <<wire, accepted, upc, calls, mlog>>

----------------------------------------------------------------------------
(* User threads.  One thread calls receiveAsync, one calls sendAsync; each *)
(* is between two calls (0) or inside a call on Session upc.recv/upc.send. *)
(* One thread calls Server::multicast: upc.mcast holds the Sessions its     *)
(* loop has still to visit, upc.data the payload.  One thread calls        *)
(* Server::restart: upc.restart is where it stands, then what it returned. *)

UserIdle == [recv |-> 0, send |-> 0, size |-> 0, mcast |-> {}, data |-> <<>>,
             restart |-> "idle"]

NoCalls == [send |-> 0, disconnect |-> 0, disconnectAll |-> 0, refused |-> 0,
            stop |-> 0, start |-> 0, restart |-> 0]

\* Session::receiveAsync -> tryReceive on the caller's thread: the test of _receiving
U_receiveAsync(i) ==
    /\ upc.recv = 0
    /\ ~(sess[i].receiving \/ ~sess[i].connected)
    /\ upc' = [upc EXCEPT !.recv = i]
    /\ UNCHANGED <<sess, srv, ioq, hpc, wire, accepted, calls, mlog>>

\* ... and the rest of tryReceive: _receiving = true and the async_read_some
U_receiveAsync_issue ==
    /\ upc.recv # 0
    /\ sess' = [sess EXCEPT ![upc.recv] = [@ EXCEPT !.receiving = TRUE, !.reads = @ + 1]]
    /\ upc' = [upc EXCEPT !.recv = 0]
    /\ UNCHANGED <<srv, ioq, hpc, wire, accepted, calls, mlog>>

\* Session::sendAsync on a user thread: the tests before the lock
U_sendAsync(i, size) ==
    /\ upc.send = 0
    /\ calls.send < MaxSendCalls
    /\ Len(accepted[i]) + size <= MaxBytes
    /\ sess[i].connected
    /\ upc' = [upc EXCEPT !.send = i, !.size = size]
    /\ calls' = [calls EXCEPT !.send = @ + 1]
    /\ UNCHANGED <<mlog, sess, srv, ioq, hpc, wire, accepted>>

\* The bytes of the next payload: the k-th byte accepted by Session i is k
Payload(i, size) == Range(Len(accepted[i]) + 1, Len(accepted[i]) + size)

\* ... and the rest of sendAsync: the locked block, then the dispatch of trySend,
\* which posts the closure since the caller is no worker of the Session's loop
U_sendAsync_locked ==
    /\ upc.send # 0
    /\ LET i == upc.send
           r == Session_sendAsyncLocked(sess[i], Payload(i, upc.size))
       IN  /\ sess' = [sess EXCEPT ![i] = r[1]]
           /\ accepted' = IF r[2] THEN [accepted EXCEPT ![i] = @ \o Payload(i, upc.size)]
                          ELSE accepted
           /\ ioq' = IF r[3] THEN Post(ioq, SessionLoop(i), Closure("trySend", i)) ELSE ioq
    /\ upc' = [upc EXCEPT !.send = 0, !.size = 0]
    /\ UNCHANGED <<srv, hpc, wire, calls, mlog>>

\* Session::sendAsync called from onReceived, on the Session's loop: dispatch runs trySend at once
Cb_sendAsync(i, payload) ==
    /\ hpc[SessionLoop(i)].pc = "onReceived"
    /\ hpc[SessionLoop(i)].sess = i
    /\ calls.send < MaxSendCalls
    /\ Len(accepted[i]) + Len(payload) <= MaxBytes
    /\ sess[i].connected
    /\ upc.send # i
    /\ LET r == Session_sendAsyncLocked(sess[i], payload)
       IN  /\ sess' = [sess EXCEPT ![i] = IF r[3] THEN Session_trySend(r[1]) ELSE r[1]]
           /\ accepted' = IF r[2] THEN [accepted EXCEPT ![i] = @ \o payload]
                          ELSE accepted
    /\ hpc' = [hpc EXCEPT ![SessionLoop(i)].tmp = @ + 1]
    /\ calls' = [calls EXCEPT !.send = @ + 1]
    /\ UNCHANGED <<mlog, srv, ioq, wire, upc>>

\* Session::disconnect() on a user thread: posts the closure unless the Session
\* is disconnected; calls.refused counts the calls that returned false
U_disconnect(i) ==
    /\ calls.disconnect < MaxDisconnectCalls
    /\ LET r == Session_disconnect(sess[i])
       IN  /\ ioq' = IF r THEN Post(ioq, SessionLoop(i), Closure("disconnect", i)) ELSE ioq
           /\ calls' = [calls EXCEPT !.disconnect = @ + 1,
                                     !.refused = IF r THEN @ ELSE @ + 1]
    /\ UNCHANGED <<mlog, sess, srv, hpc, wire, accepted, upc>>

----------------------------------------------------------------------------
(* The Client side and the network stay as constructed when a              *)
(* specification is about the Server side alone, and conversely.           *)

CIdle == [pc |-> "idle", data |-> <<>>, err |-> NoError]

\* ret: what the last call of connect returned; tried: that call went past its
\* first test and made an attempt
CUserIdle == [send |-> FALSE, size |-> 0, connect |-> "idle", ret |-> "none",
              tried |-> FALSE]

NoClientCalls == [send |-> 0, connect |-> 0, disconnect |-> 0, refused |-> 0,
                  early |-> 0, sync |-> 0, connectSync |-> 0]

(* A Service: its io_services, its worker threads and the threads calling it *)

NumWorkers == 2         \* worker threads of a Service, each with its own io_service
NumCallers == 2         \* user threads calling start and stop
MaxServiceCalls == 2    \* calls of start and stop one user thread makes

WorkerIds == 1..NumWorkers
CallerIds == 1..NumCallers

\* _services[0], where Service::post puts the handlers
ServiceLoop == 1

CallerIdle == [pc |-> "idle", i |-> 0, polling |-> FALSE, ret |-> "none", calls |-> 0]

\* Service::Service(num_threads, own_io = false): one io_service and one
\* std::thread, not yet started, for each of the num_threads workers; with
\* num_threads = 0, as with the constructor that is given an io_service, one
\* io_service and no thread: the caller drives the loop
Service_Service(num_threads) ==
    [ threads |-> num_threads,
      started |-> FALSE,
      polling |-> FALSE,
      q |-> <<>>,                                   \* handlers posted to _services[0]
      io_stopped |-> [i \in WorkerIds |-> FALSE],   \* io_service::stop() was called
      joinable |-> [i \in WorkerIds |-> FALSE],     \* _threads[i].joinable()
      worker |-> [i \in WorkerIds |-> "none"],      \* where thread i stands in serviceThread
      wpolling |-> [i \in WorkerIds |-> FALSE],     \* the local `polling` of thread i
      caller |-> [c \in CallerIds |-> CallerIdle],
      stop_requested |-> FALSE,                     \* a stop passed its test since the last start did
      crashed |-> FALSE,                            \* std::terminate or a failed assert
      onStarted |-> 0,
      onStopped |-> 0,
      onThreadInit |-> 0,
      onThreadCleanup |-> 0 ]

ServiceUnused == Service_Service(0)

\* start_handler of Service::start
Service_startHandler(s) ==
    IF s.started THEN s
    ELSE [s EXCEPT !.started = TRUE, !.onStarted = @ + 1]

\* stop_handler of Service::stop
Service_stopHandler(s) ==
    IF ~s.started THEN s
    ELSE [s EXCEPT !.io_stopped = [i \in WorkerIds |-> TRUE],
                   !.started = FALSE,
                   !.onStopped = @ + 1]

\* one handler taken from _services[0] and run
Service_runHandler(s) ==
    LET t == [s EXCEPT !.q = Tail(@)]
    IN  IF Head(s.q) = "start" THEN Service_startHandler(t) ELSE Service_stopHandler(t)

\* io->poll(): runs the handlers that are ready, until none is left or the
\* io_service is stopped
RECURSIVE Service_poll(_, _)
Service_poll(s, i) ==
    IF s.io_stopped[i] \/ i # ServiceLoop \/ s.q = <<>> THEN s
    ELSE Service_poll(Service_runHandler(s), i)

\* `while (service->isStarted())` of serviceThread
Service_loopTest(s) == s.started

\* ---------------------------------------------------------------------------
\* HandlerMemory<S> (src/unnamed/part_011): the storage of an asio handler,
\* an inline slab of S bytes with a used flag, and the heap behind it.

SlabSize == 3          \* S, the size of _fast_storage
MaxHeapLive == 2       \* blocks of the heap live at a time
MaxMemOps == 6         \* calls of alloc and free

SlabPtr == 0           \* &_fast_storage; the blocks of the heap are 1, 2, ...
HeapPtrs == 1..MaxHeapLive

HandlerMemory_HandlerMemory ==
    [ used |-> FALSE,
      live |-> <<>>,     \* the allocations not yet freed: pointer and size
      ops |-> 0,
      op |-> [kind |-> "none", size |-> 0, ptr |-> 0, was_used |-> FALSE] ]

MemUnused == HandlerMemory_HandlerMemory

\* alloc(size): <<the flag afterwards, the pointer returned>>; fresh is the
\* block std::malloc returns.
HandlerMemory_alloc_inclusive(used, size, fresh) ==
    IF ~used /\ size <= SlabSize THEN <<TRUE, SlabPtr>> ELSE <<used, fresh>>

HandlerMemory_alloc(used, size, fresh) ==
    IF ~used /\ size < SlabSize THEN <<TRUE, SlabPtr>> ELSE <<used, fresh>>

\* free(ptr): the flag afterwards.
HandlerMemory_free(used, ptr) ==
    IF ptr = SlabPtr THEN FALSE ELSE used

\* ---------------------------------------------------------------------------
\* Session::send with a timeout (tcp_session.cxx 121-182): the locals of the
\* call, its timer and its write.

TimedOut == "timed_out"

NoTimedSend ==
    [ pc |-> "idle",           \* the calling thread: idle, wait (cv.wait), returned
      sess |-> 0, size |-> 0,
      done |-> 0,
      err |-> NoError,
      assigned |-> FALSE,      \* num_bytes_sent was assigned by the write handler
      num_bytes_sent |-> 0,
      timer |-> "none",        \* none, armed, queued (its completion is queued), ran
      write |-> "none",        \* none, armed, queued, ran
      q |-> <<>>,              \* the completions queued on the Session's loop, in order
      hpc |-> "idle",          \* the loop's thread inside the write handler: idle, assign
      reported |-> 0,          \* the count the write completion reported
      first |-> "none",        \* the handler that found done = 0 and its code
      read_cancelled |-> FALSE,\* _socket.cancel() reached an outstanding async_read_some
      disconnects |-> FALSE,   \* send called disconnect()
      ret |-> 0,
      calls |-> 0 ]

NetUnused == [c2s |-> 0, s2c |-> 0]

ClientUnused ==
    /\ cli = Client_Client(0, 0)
    /\ cq = <<>>
    /\ chpc = CIdle
    /\ cwire = <<>>
    /\ caccepted = <<>>
    /\ crecv = <<>>
    /\ cupc = CUserIdle
    /\ ccalls = NoClientCalls
    /\ net = NetUnused
    /\ svc = ServiceUnused
    /\ tsend = NoTimedSend
    /\ hmem = MemUnused

----------------------------------------------------------------------------
(* One Session under user threads: the Server is started and its first     *)
(* accept is outstanding; one connection arrives.                          *)

AcceptErrors == {"connection_aborted", "no_descriptors"}

InitSession ==
    /\ sess \in [SessionIds -> {Session_Session(sl, rl) : sl \in SendLimits, rl \in RecvLimits}]
    /\ \A i \in SessionIds : i # 1 => sess[i] = Session_Session(0, 0)
    /\ srv = Server_startHandler(Server_Server(1))
    /\ ioq = [l \in LoopIds |-> <<>>]
    /\ hpc = [l \in LoopIds |-> Idle]
    /\ wire = [i \in SessionIds |-> <<>>]
    /\ accepted = [i \in SessionIds |-> <<>>]
    /\ upc = UserIdle
    /\ calls = NoCalls
    /\ mlog = <<>>
    /\ ClientUnused

NextSession ==
    \/ AcceptComplete(NoError) /\ UNCHANGED <<clientVars, net, svc, tsend, hmem>>
    \/ U_receiveAsync(1) /\ UNCHANGED <<clientVars, net, svc, tsend, hmem>>
    \/ U_receiveAsync_issue /\ UNCHANGED <<clientVars, net, svc, tsend, hmem>>
    \/ \E n \in 1..MaxPayload : U_sendAsync(1, n) /\ UNCHANGED <<clientVars, net, svc, tsend, hmem>>
    \/ U_sendAsync_locked /\ UNCHANGED <<clientVars, net, svc, tsend, hmem>>
    \/ \E n \in 1..MaxPayload : Cb_sendAsync(1, Payload(1, n)) /\ UNCHANGED <<clientVars, net, svc, tsend, hmem>>
    \/ U_disconnect(1) /\ UNCHANGED <<clientVars, net, svc, tsend, hmem>>
    \/ RunTrySend(1) /\ UNCHANGED <<clientVars, net, svc, tsend, hmem>>
    \/ RunDisconnect(1) /\ UNCHANGED <<clientVars, net, svc, tsend, hmem>>
    \/ RunUnregister /\ UNCHANGED <<clientVars, net, svc, tsend, hmem>>
    \/ \E o \in (IF sess[1].writes = <<>> THEN {} ELSE WriteOutcomes(sess[1])) :
          WriteComplete(1, o) /\ UNCHANGED <<clientVars, net, svc, tsend, hmem>>
    \/ \E l \in LoopIds : WriteCounted(l) /\ UNCHANGED <<clientVars, net, svc, tsend, hmem>>
    \/ \E l \in LoopIds : ReadCounted(l) /\ UNCHANGED <<clientVars, net, svc, tsend, hmem>>
    \/ \E o \in ReadOutcomes(sess[1]) :
          ReadComplete(1, o[1], Zeros(o[2])) /\ UNCHANGED <<clientVars, net, svc, tsend, hmem>>
    \/ \E l \in LoopIds : ReadResume(l) /\ UNCHANGED <<clientVars, net, svc, tsend, hmem>>

SpecSession == InitSession /\ [][NextSession]_vars

----------------------------------------------------------------------------
(* The Client's loop and the user threads calling the Client *)

ServerUnused ==
    /\ sess = [i \in SessionIds |-> Session_Session(0, 0)]
    /\ srv = Server_Server(0)
    /\ ioq = [l \in LoopIds |-> <<>>]
    /\ hpc = [l \in LoopIds |-> Idle]
    /\ wire = [i \in SessionIds |-> <<>>]
    /\ accepted = [i \in SessionIds |-> <<>>]
    /\ upc = UserIdle
    /\ calls = NoCalls
    /\ mlog = <<>>

CHeadIs(kind) ==
    /\ chpc = CIdle
    /\ cq # <<>>
    /\ Head(cq) = kind

\* Client::connectAsync on a user thread: posts the handler
CU_connectAsync ==
    /\ ccalls.connect < MaxConnectCalls
    /\ ~(cli.connected \/ cli.connecting)
    /\ cq' = Append(cq, "connect")
    /\ ccalls' = [ccalls EXCEPT !.connect = @ + 1]
    /\ UNCHANGED <<cli, chpc, cwire, caccepted, crecv, cupc>>

\* The handler posted by Client::connectAsync
CRunConnect ==
    /\ CHeadIs("connect")
    /\ cli' = Client_connectHandler(cli)
    /\ cq' = Tail(cq)
    /\ UNCHANGED <<chpc, cwire, caccepted, crecv, cupc, ccalls>>

ConnectErrors == {"connection_refused", "timed_out"}

\* async_connect completes
CConnectComplete(err) ==
    /\ chpc = CIdle
    /\ cli.connects > 0
    /\ cli' = Client_onConnected([cli EXCEPT !.connects = @ - 1], err)
    /\ UNCHANGED <<cq, chpc, cwire, caccepted, crecv, cupc, ccalls>>

\* Client_sendAsync going on to the lock whatever isReady says
Client_sendAsync_always(c) == TRUE

\* Client::sendAsync: the test of isReady.  The call returns false when the
\* answer is false and goes on to the locked block otherwise.
Client_sendAsync(c) == Client_isReady(c)

\* Client::sendAsync on a user thread: the tests before the lock;
\* ccalls.refused counts the calls that returned 0 or false at once,
\* ccalls.early those of them made on a connected Client
CU_sendAsync(size) ==
    /\ ~cupc.send
    /\ ccalls.send < MaxClientSendCalls
    /\ Len(caccepted) + size <= MaxBytes
    /\ LET r == Client_sendAsync(cli)
       IN  /\ cupc' = IF r THEN [cupc EXCEPT !.send = TRUE, !.size = size] ELSE cupc
           /\ ccalls' = [ccalls EXCEPT !.send = @ + 1,
                                       !.refused = IF r THEN @ ELSE @ + 1,
                                       !.early = IF ~r /\ cli.connected THEN @ + 1 ELSE @]
    /\ UNCHANGED <<cli, cq, chpc, cwire, caccepted, crecv>>

\* The bytes of the next payload: the k-th byte the Client accepts is k
CPayload(size) == Range(Len(caccepted) + 1, Len(caccepted) + size)

\* ... and the rest of sendAsync: the locked block, then the dispatch of trySend
CU_sendAsync_locked ==
    /\ cupc.send
    /\ LET r == Client_sendAsyncLocked(cli, CPayload(cupc.size))
       IN  /\ cli' = r[1]
           /\ caccepted' = IF r[2] THEN caccepted \o CPayload(cupc.size) ELSE caccepted
           /\ cq' = IF r[3] THEN Append(cq, "trySend") ELSE cq
    /\ cupc' = [cupc EXCEPT !.send = FALSE, !.size = 0]
    /\ UNCHANGED <<chpc, cwire, crecv, ccalls>>

\* The closure posted by Client::sendAsync
CRunTrySend ==
    /\ CHeadIs("trySend")
    /\ cli' = Client_trySend(cli)
    /\ cq' = Tail(cq)
    /\ UNCHANGED <<chpc, cwire, caccepted, crecv, cupc, ccalls>>

\* Client::disconnectAsync() on a user thread: cancels, then posts disconnect
CU_disconnectAsync ==
    /\ ccalls.disconnect < MaxDisconnectCalls
    /\ ~(~cli.connected \/ cli.connecting)
    /\ cli' = Client_cancel(cli)
    /\ cq' = Append(cq, "disconnect")
    /\ ccalls' = [ccalls EXCEPT !.disconnect = @ + 1]
    /\ UNCHANGED <<chpc, cwire, caccepted, crecv, cupc>>

\* The closure posted by Client::disconnectAsync
CRunDisconnect ==
    /\ CHeadIs("disconnect")
    /\ cli' = Client_disconnect(cli)
    /\ cq' = Tail(cq)
    /\ UNCHANGED <<chpc, cwire, caccepted, crecv, cupc, ccalls>>

\* An outstanding write of the Client completes: `size` bytes of its buffer went
\* to the socket.  An aborted write reports operation_aborted, unless it had
\* completed before it was cancelled.
CWriteOutcomes(c) ==
    LET op == Head(c.writes)
        room == MaxWire - Len(cwire)
        ok == {<<NoError, n>> : n \in 1..(IF Len(op.buf) < room THEN Len(op.buf) ELSE room)}
    IN  IF op.aborted THEN ok \cup {<<OperationAborted, 0>>}
        ELSE ok \cup {<<e, 0>> : e \in IoErrors}

CWriteComplete(o) ==
    /\ chpc = CIdle
    /\ cli.writes # <<>>
    /\ cwire' = cwire \o SubSeq(Head(cli.writes).buf, 1, o[2])
    /\ cli' = Client_onWritten([cli EXCEPT !.writes = Tail(@)], o[1], o[2])
    /\ UNCHANGED <<cq, chpc, caccepted, crecv, cupc, ccalls>>

\* An outstanding read of the Client completes with the bytes `data`.
CReadOutcomes(c) ==
    LET room == MaxClientRecv - Len(crecv)
    IN  IF Head(c.reads).aborted THEN {<<OperationAborted, 0>>}
        ELSE {<<NoError, n>> : n \in 1..(IF c.receive_buff < room THEN c.receive_buff ELSE room)}
             \cup {<<e, 0>> : e \in IoErrors}

\* The handler up to the end of onReceive (the callback is running when size > 0)
CReadComplete(err, data) ==
    /\ chpc = CIdle
    /\ cli.reads # <<>>
    /\ LET c == [cli EXCEPT !.reads = Tail(@)]
           a == Client_onReadBegin(c, Len(data))
       IN  IF ~Client_isReady(c)
           THEN cli' = a /\ UNCHANGED <<chpc, crecv>>
           ELSE IF data = <<>>
           THEN cli' = Client_onReadEnd(a, err, 0) /\ UNCHANGED <<chpc, crecv>>
           ELSE /\ cli' = a
                /\ crecv' = crecv \o data
                /\ chpc' = [pc |-> "onReceive", data |-> data, err |-> err]
    /\ UNCHANGED <<cq, cwire, caccepted, cupc, ccalls>>

\* onReceive returns: the rest of the handler
CReadResume ==
    /\ chpc.pc = "onReceive"
    /\ cli' = Client_onReadEnd(cli, chpc.err, Len(chpc.data))
    /\ chpc' = CIdle
    /\ UNCHANGED <<cq, cwire, caccepted, crecv, cupc, ccalls>>

----------------------------------------------------------------------------
(* One Client under user threads; its peer is the environment. *)

InitClient ==
    /\ ServerUnused
    /\ cli \in {Client_Client(sl, rl) : sl \in SendLimits, rl \in RecvLimits}
    /\ cq = <<>>
    /\ chpc = CIdle
    /\ cwire = <<>>
    /\ caccepted = <<>>
    /\ crecv = <<>>
    /\ cupc = CUserIdle
    /\ ccalls = NoClientCalls
    /\ net = NetUnused
    /\ svc = ServiceUnused
    /\ tsend = NoTimedSend
    /\ hmem = MemUnused

NextClient ==
    \/ CU_connectAsync /\ UNCHANGED <<serverVars, net, svc, tsend, hmem>>
    \/ CRunConnect /\ UNCHANGED <<serverVars, net, svc, tsend, hmem>>
    \/ \E e \in {NoError} \cup ConnectErrors : CConnectComplete(e) /\ UNCHANGED <<serverVars, net, svc, tsend, hmem>>
    \/ \E n \in 1..MaxPayload : CU_sendAsync(n) /\ UNCHANGED <<serverVars, net, svc, tsend, hmem>>
    \/ CU_sendAsync_locked /\ UNCHANGED <<serverVars, net, svc, tsend, hmem>>
    \/ CRunTrySend /\ UNCHANGED <<serverVars, net, svc, tsend, hmem>>
    \/ CU_disconnectAsync /\ UNCHANGED <<serverVars, net, svc, tsend, hmem>>
    \/ CRunDisconnect /\ UNCHANGED <<serverVars, net, svc, tsend, hmem>>
    \/ \E o \in (IF cli.writes = <<>> THEN {} ELSE CWriteOutcomes(cli)) :
          CWriteComplete(o) /\ UNCHANGED <<serverVars, net, svc, tsend, hmem>>
    \/ \E o \in (IF cli.reads = <<>> THEN {} ELSE CReadOutcomes(cli)) :
          CReadComplete(o[1], Zeros(o[2])) /\ UNCHANGED <<serverVars, net, svc, tsend, hmem>>
    \/ CReadResume /\ UNCHANGED <<serverVars, net, svc, tsend, hmem>>

SpecClient == InitClient /\ [][NextClient]_vars

----------------------------------------------------------------------------
(* A Server with several Sessions on the loops of its Service, under user  *)
(* threads calling multicast, disconnectAll and Session::disconnect.       *)

MaxMulticasts == 2          \* calls of Server::multicast
MaxServerMulticasts == 1    \* calls of Server::multicast while Sessions come and go
MaxServerDisconnects == 1   \* calls of Session::disconnect by user threads
MaxMulticastPayload == 1    \* longest payload handed to multicast
MaxDisconnectAllCalls == 1  \* calls of Server::disconnectAll
MaxServerRecv == 1          \* bytes a peer delivers to one Session of the Server
MulticastLimits == {0, 1}   \* values given to setSendBuffLimit of the first Session

\* The outcomes of a read the peers of the Server's Sessions produce: data
\* within the bound, or the peer closing the connection
ServerReadOutcomes(s) ==
    {o \in ReadOutcomes(s) : o[2] <= MaxServerRecv - s.bytes_received /\ o[1] # "broken_pipe"}

\* The outcomes of a write towards the peers of the Server's Sessions
ServerWriteOutcomes(s) ==
    IF s.writes = <<>> THEN {} ELSE {o \in WriteOutcomes(s) : o[1] # "eof"}

\* Server_multicastSessions leaving out the Sessions of other loops than the Server's
Server_multicastSessions_ownLoop(v) == {i \in v.sessions : SessionLoop(i) = ServerLoop}

\* Server::multicast: the Sessions its loop visits
Server_multicastSessions(v) == v.sessions

\* The bytes of the next multicast: the k-th byte handed to multicast is k
RECURSIVE MulticastBytes(_)
MulticastBytes(k) == IF k = 0 THEN 0 ELSE MulticastBytes(k - 1) + Len(mlog[k].payload)

\* Server::multicast on a user thread, up to the loop: takes _sessions_lock shared
U_multicast(size) ==
    /\ upc.mcast = {}
    /\ Len(mlog) < MaxMulticasts
    /\ srv.started
    /\ LET from == MulticastBytes(Len(mlog))
           payload == Range(from + 1, from + size)
       IN  /\ upc' = [upc EXCEPT !.mcast = Server_multicastSessions(srv), !.data = payload]
           /\ mlog' = Append(mlog, [payload |-> payload,
                                    targets |-> {i \in srv.sessions : sess[i].connected},
                                    refused |-> {}])
    /\ UNCHANGED <<sess, srv, ioq, hpc, wire, accepted, calls>>

\* One round of the loop of Server::multicast: sendAsync on Session i, whose
\* dispatch posts trySend, the caller being no worker of the Session's loop.
\* The lock is released after the last round.
U_multicast_send(i) ==
    /\ i \in upc.mcast
    /\ LET s == sess[i]
           r == Session_sendAsyncLocked(s, upc.data)
           refused == ~s.connected \/ ~r[2]
       IN  /\ sess' = IF s.connected THEN [sess EXCEPT ![i] = r[1]] ELSE sess
           /\ accepted' = IF s.connected
                          THEN [accepted EXCEPT ![i] =
                                  @ \o Tail0(r[1].send_buff_main, Len(s.send_buff_main))]
                          ELSE accepted
           /\ ioq' = IF s.connected /\ r[2] /\ r[3]
                     THEN Post(ioq, SessionLoop(i), Closure("trySend", i)) ELSE ioq
           /\ mlog' = IF refused THEN [mlog EXCEPT ![Len(mlog)].refused = @ \cup {i}] ELSE mlog
    /\ upc' = [upc EXCEPT !.mcast = @ \ {i},
                          !.data = IF upc.mcast = {i} THEN <<>> ELSE @]
    /\ UNCHANGED <<srv, hpc, wire, calls>>

\* Server::disconnectAll on a user thread: posts the closure
U_disconnectAll ==
    /\ calls.disconnectAll < MaxDisconnectAllCalls
    /\ srv.started
    /\ ioq' = Post(ioq, ServerLoop, Closure("disconnectAll", 0))
    /\ calls' = [calls EXCEPT !.disconnectAll = @ + 1]
    /\ UNCHANGED <<sess, srv, hpc, wire, accepted, upc, mlog>>

\* Session::disconnect() called for every Session of S in turn: each one that is
\* connected has its closure posted to its loop
RECURSIVE PostDisconnects(_, _)
PostDisconnects(q, S) ==
    IF S = {} THEN q
    ELSE LET i == CHOOSE j \in S : \A k \in S : j <= k
         IN  PostDisconnects(IF Session_disconnect(sess[i])
                             THEN Post(q, SessionLoop(i), Closure("disconnect", i)) ELSE q,
                             S \ {i})

\* The closure posted by Server::disconnectAll
RunDisconnectAll ==
    /\ HeadIs(ServerLoop, "disconnectAll")
    /\ ioq' = IF srv.started THEN PostDisconnects(Pop(ioq, ServerLoop), srv.sessions)
              ELSE Pop(ioq, ServerLoop)
    /\ UNCHANGED <<sess, srv, hpc, wire, accepted, upc, calls, mlog>>

InitServer ==
    /\ sess \in [SessionIds -> {Session_Session(sl, 0) : sl \in MulticastLimits}]
    /\ \A i \in SessionIds : i # 1 => sess[i] = Session_Session(0, 0)
    /\ srv = Server_startHandler(Server_Server(NumSessions))
    /\ ioq = [l \in LoopIds |-> <<>>]
    /\ hpc = [l \in LoopIds |-> Idle]
    /\ wire = [i \in SessionIds |-> <<>>]
    /\ accepted = [i \in SessionIds |-> <<>>]
    /\ upc = UserIdle
    /\ calls = NoCalls
    /\ mlog = <<>>
    /\ ClientUnused

NextServer ==
    \/ AcceptComplete(NoError) /\ UNCHANGED <<clientVars, net, svc, tsend, hmem>>
    \/ \E e \in AcceptErrors : srv.session # 0 /\ AcceptComplete(e) /\ UNCHANGED <<clientVars, net, svc, tsend, hmem>>
    \/ \E n \in 1..MaxMulticastPayload :
          Len(mlog) < MaxServerMulticasts /\ U_multicast(n) /\ UNCHANGED <<clientVars, net, svc, tsend, hmem>>
    \/ \E i \in SessionIds : U_multicast_send(i) /\ UNCHANGED <<clientVars, net, svc, tsend, hmem>>
    \/ U_disconnectAll /\ UNCHANGED <<clientVars, net, svc, tsend, hmem>>
    \/ RunDisconnectAll /\ UNCHANGED <<clientVars, net, svc, tsend, hmem>>
    \/ \E i \in SessionIds :
          calls.disconnect < MaxServerDisconnects /\ U_disconnect(i) /\ UNCHANGED <<clientVars, net, svc, tsend, hmem>>
    \/ \E i \in SessionIds : RunTrySend(i) /\ UNCHANGED <<clientVars, net, svc, tsend, hmem>>
    \/ \E i \in SessionIds : RunDisconnect(i) /\ UNCHANGED <<clientVars, net, svc, tsend, hmem>>
    \/ RunUnregister /\ UNCHANGED <<clientVars, net, svc, tsend, hmem>>
    \/ \E i \in SessionIds :
          \E o \in ServerWriteOutcomes(sess[i]) :
             WriteComplete(i, o) /\ UNCHANGED <<clientVars, net, svc, tsend, hmem>>
    \/ \E l \in LoopIds : WriteCounted(l) /\ UNCHANGED <<clientVars, net, svc, tsend, hmem>>
    \/ \E i \in SessionIds : \E o \in ServerReadOutcomes(sess[i]) :
          ReadComplete(i, o[1], Zeros(o[2])) /\ UNCHANGED <<clientVars, net, svc, tsend, hmem>>
    \/ \E l \in LoopIds : ReadCounted(l) /\ UNCHANGED <<clientVars, net, svc, tsend, hmem>>
    \/ \E l \in LoopIds : ReadResume(l) /\ UNCHANGED <<clientVars, net, svc, tsend, hmem>>

SpecServer == InitServer /\ [][NextServer]_vars

----------------------------------------------------------------------------
(* The same Server with user threads calling multicast repeatedly.         *)

NextMulticast ==
    \/ AcceptComplete(NoError) /\ UNCHANGED <<clientVars, net, svc, tsend, hmem>>
    \/ \E n \in 1..MaxMulticastPayload : U_multicast(n) /\ UNCHANGED <<clientVars, net, svc, tsend, hmem>>
    \/ \E i \in SessionIds : U_multicast_send(i) /\ UNCHANGED <<clientVars, net, svc, tsend, hmem>>
    \/ \E i \in SessionIds :
          calls.disconnect < MaxServerDisconnects /\ U_disconnect(i) /\ UNCHANGED <<clientVars, net, svc, tsend, hmem>>
    \/ \E i \in SessionIds : RunTrySend(i) /\ UNCHANGED <<clientVars, net, svc, tsend, hmem>>
    \/ \E i \in SessionIds : RunDisconnect(i) /\ UNCHANGED <<clientVars, net, svc, tsend, hmem>>
    \/ RunUnregister /\ UNCHANGED <<clientVars, net, svc, tsend, hmem>>
    \/ \E i \in SessionIds :
          \E o \in ServerWriteOutcomes(sess[i]) :
             WriteComplete(i, o) /\ UNCHANGED <<clientVars, net, svc, tsend, hmem>>
    \/ \E l \in LoopIds : WriteCounted(l) /\ UNCHANGED <<clientVars, net, svc, tsend, hmem>>
    \/ \E i \in SessionIds : \E o \in ServerReadOutcomes(sess[i]) :
          ReadComplete(i, o[1], Zeros(o[2])) /\ UNCHANGED <<clientVars, net, svc, tsend, hmem>>
    \/ \E l \in LoopIds : ReadCounted(l) /\ UNCHANGED <<clientVars, net, svc, tsend, hmem>>
    \/ \E l \in LoopIds : ReadResume(l) /\ UNCHANGED <<clientVars, net, svc, tsend, hmem>>

SpecMulticast == InitServer /\ [][NextMulticast]_vars

----------------------------------------------------------------------------
(* A Client connected to a Server whose Sessions echo: onReceived calls    *)
(* sendAsync with the bytes it was handed.  The bytes the Client's socket  *)
(* took (cwire) are what the Session's socket reads, the bytes the         *)
(* Session's socket took (wire[1]) are what the Client's socket reads; net *)
(* holds how far each reader is.  No connection fails.                     *)

MaxEchoConnects == 1    \* calls of Client::connectAsync

Min(a, b) == IF a < b THEN a ELSE b

\* The connection of the Client arrives at the Server
EchoAccept ==
    /\ cli.connects > 0 \/ cli.established > 0
    /\ AcceptComplete(NoError)
    /\ UNCHANGED <<clientVars, net, svc, tsend, hmem>>

\* The Client's socket takes n bytes of the outstanding write
EchoClientWrite(n) ==
    /\ cli.writes # <<>>
    /\ n <= Min(Len(Head(cli.writes).buf), MaxWire - Len(cwire))
    /\ CWriteComplete(<<NoError, n>>)
    /\ UNCHANGED <<serverVars, net, svc, tsend, hmem>>

\* The Session's socket hands over n of the bytes the Client's socket took
EchoSessionRead(n) ==
    /\ n <= Min(sess[1].receive_buff, Len(cwire) - net.c2s)
    /\ ReadComplete(1, NoError, SubSeq(cwire, net.c2s + 1, net.c2s + n))
    /\ net' = [net EXCEPT !.c2s = @ + n]
    /\ UNCHANGED <<clientVars, svc, tsend, hmem>>

\* onReceived of the echo Session: one sendAsync of the bytes handed over
EchoOnReceived ==
    /\ hpc[SessionLoop(1)].tmp = 0
    /\ Cb_sendAsync(1, hpc[SessionLoop(1)].data)
    /\ UNCHANGED <<clientVars, net, svc, tsend, hmem>>

\* onReceived returns
EchoReadResume ==
    /\ hpc[SessionLoop(1)].tmp = 1
    /\ ReadResume(SessionLoop(1))
    /\ UNCHANGED <<clientVars, net, svc, tsend, hmem>>

\* The Session's socket takes n bytes of the outstanding write
EchoSessionWrite(n) ==
    /\ sess[1].writes # <<>>
    /\ n <= Len(Head(sess[1].writes))
    /\ WriteComplete(1, <<NoError, n>>)
    /\ UNCHANGED <<clientVars, net, svc, tsend, hmem>>

\* The Client's socket hands over n of the bytes the Session's socket took
EchoClientRead(n) ==
    /\ n <= Min(cli.receive_buff, Len(wire[1]) - net.s2c)
    /\ CReadComplete(NoError, SubSeq(wire[1], net.s2c + 1, net.s2c + n))
    /\ net' = [net EXCEPT !.s2c = @ + n]
    /\ UNCHANGED <<serverVars, svc, tsend, hmem>>

InitEcho ==
    /\ sess = [i \in SessionIds |-> Session_Session(0, 0)]
    /\ srv = Server_startHandler(Server_Server(1))
    /\ ioq = [l \in LoopIds |-> <<>>]
    /\ hpc = [l \in LoopIds |-> Idle]
    /\ wire = [i \in SessionIds |-> <<>>]
    /\ accepted = [i \in SessionIds |-> <<>>]
    /\ upc = UserIdle
    /\ calls = NoCalls
    /\ mlog = <<>>
    /\ ClientUnused

NextEcho ==
    \/ ccalls.connect < MaxEchoConnects /\ CU_connectAsync /\ UNCHANGED <<serverVars, net, svc, tsend, hmem>>
    \/ CRunConnect /\ UNCHANGED <<serverVars, net, svc, tsend, hmem>>
    \/ CConnectComplete(NoError) /\ UNCHANGED <<serverVars, net, svc, tsend, hmem>>
    \/ EchoAccept
    \/ \E n \in 1..MaxPayload : CU_sendAsync(n) /\ UNCHANGED <<serverVars, net, svc, tsend, hmem>>
    \/ CU_sendAsync_locked /\ UNCHANGED <<serverVars, net, svc, tsend, hmem>>
    \/ CRunTrySend /\ UNCHANGED <<serverVars, net, svc, tsend, hmem>>
    \/ \E n \in 1..MaxWire : EchoClientWrite(n)
    \/ \E n \in 1..MaxWire : EchoSessionRead(n)
    \/ ReadCounted(SessionLoop(1)) /\ UNCHANGED <<clientVars, net, svc, tsend, hmem>>
    \/ EchoOnReceived
    \/ EchoReadResume
    \/ \E n \in 1..MaxWire : EchoSessionWrite(n)
    \/ WriteCounted(SessionLoop(1)) /\ UNCHANGED <<clientVars, net, svc, tsend, hmem>>
    \/ \E n \in 1..MaxWire : EchoClientRead(n)
    \/ CReadResume /\ UNCHANGED <<serverVars, net, svc, tsend, hmem>>

SpecEcho == InitEcho /\ [][NextEcho]_vars

----------------------------------------------------------------------------
(* A Client, plain or SSL::Client, under user threads calling every way of *)
(* connecting, disconnecting, sending and receiving.  The synchronous       *)
(* calls run on the caller's thread; a blocking call on the socket is a     *)
(* point where other threads run.  cupc.connect is where the thread inside  *)
(* SSL::Client::connect stands.  ccalls.early counts the calls refused      *)
(* while the Client was connected.                                          *)

MaxSyncCalls == 1       \* calls of Client::send and Client::receive
MaxSyncConnects == 1    \* calls of SSL::Client::connect
MaxReadyConnects == 1   \* calls of connectAsync
MaxReadyDisconnects == 1 \* calls of disconnect and disconnectAsync
MaxReadySends == 1      \* calls of sendAsync
MaxReadyPayload == 1    \* longest payload handed to the Client


\* disconnect(), a virtual function
\* Client::connect, from the return of socket().connect(_endpoint, err)
Client_connect(c, err) ==
    IF err # NoError THEN [Client_errVirtual(c, err) EXCEPT !.onDisconnect = @ + 1]
    ELSE [c EXCEPT !.receive_buff = RecvBufSize,
                   !.bytes_pending = 0, !.bytes_sending = 0,
                   !.bytes_received = 0, !.bytes_sent = 0,
                   !.connected = TRUE,
                   !.established = @ + 1,
                   !.onConnect = @ + 1]

Client_disconnectVirtual(c) ==
    IF c.tls THEN SSLClient_disconnect(c) ELSE Client_disconnect(c)

\* Client::send after writeSome returned
Client_sent(c, err, size) ==
    LET b == IF size > 0 THEN [c EXCEPT !.bytes_sent = @ + size, !.onSend = @ + 1] ELSE c
    IN  IF err # NoError THEN Client_disconnectVirtual(Client_errVirtual(b, err)) ELSE b

\* Client::receive after readSome returned
Client_received(c, err, size) ==
    LET b == IF size > 0 THEN [c EXCEPT !.bytes_received = @ + size] ELSE c
    IN  IF err # NoError THEN Client_disconnectVirtual(Client_errVirtual(b, err)) ELSE b

\* SSL::Client::connect: socket().connect has returned
SSLClient_connectReturned(c, err) ==
    IF err # NoError THEN [Client_errVirtual(c, err) EXCEPT !.onDisconnect = @ + 1]
    ELSE SSLClient_connected(c)

\* SSL::Client::connect: _stream.handshake has returned
SSLClient_handshakeReturned(c, err) ==
    IF err # NoError THEN [Client_errVirtual(c, err) EXCEPT !.onDisconnect = @ + 1]
    ELSE [c EXCEPT !.handshaked = TRUE, !.onHandshaked = @ + 1]

\* What a blocking write or read of at most `size` bytes can return
SyncOutcomes(size, room) ==
    {<<NoError, n>> : n \in 1..Min(size, room)} \cup {<<e, 0>> : e \in IoErrors}

Refuse(c) ==
    [ccalls EXCEPT !.sync = @ + 1, !.refused = @ + 1,
                   !.early = IF c.connected THEN @ + 1 ELSE @]

\* Client::send on a user thread
CU_send(size, o) ==
    /\ ccalls.sync < MaxSyncCalls
    /\ IF ~Client_isReady(cli)
       THEN ccalls' = Refuse(cli) /\ UNCHANGED <<cli, cwire>>
       ELSE /\ o \in SyncOutcomes(size, MaxWire - Len(cwire))
            /\ cli' = Client_sent(cli, o[1], o[2])
            /\ cwire' = cwire \o Zeros(o[2])
            /\ ccalls' = [ccalls EXCEPT !.sync = @ + 1]
    /\ UNCHANGED <<cq, chpc, caccepted, crecv, cupc>>

\* Client::receive on a user thread
CU_receive(size, o) ==
    /\ ccalls.sync < MaxSyncCalls
    /\ IF ~Client_isReady(cli)
       THEN ccalls' = Refuse(cli) /\ UNCHANGED <<cli, crecv>>
       ELSE /\ o \in SyncOutcomes(size, MaxClientRecv - Len(crecv))
            /\ cli' = Client_received(cli, o[1], o[2])
            /\ crecv' = crecv \o Zeros(o[2])
            /\ ccalls' = [ccalls EXCEPT !.sync = @ + 1]
    /\ UNCHANGED <<cq, chpc, cwire, caccepted, cupc>>

\* SSL::Client::connectAsync on a user thread
SU_connectAsync ==
    /\ cli.tls
    /\ ccalls.connect < MaxConnectCalls
    /\ cq' = IF SSLClient_busy(cli) THEN cq ELSE Append(cq, "connect")
    /\ ccalls' = [ccalls EXCEPT !.connect = @ + 1]
    /\ UNCHANGED <<cli, chpc, cwire, caccepted, crecv, cupc>>

\* connect_handler, posted by SSL::Client::connectAsync
SRunConnect ==
    /\ cli.tls
    /\ CHeadIs("connect")
    /\ cli' = SSLClient_connectHandler(cli)
    /\ cq' = Tail(cq)
    /\ UNCHANGED <<chpc, cwire, caccepted, crecv, cupc, ccalls>>

\* A connect on the socket succeeds at most once, while the socket is open
CanLink(c) == c.open /\ ~c.linked

\* async_connect completes: connectEndpoint
SConnectComplete(err) ==
    /\ cli.tls
    /\ chpc = CIdle
    /\ cli.connects > 0
    /\ err = NoError => CanLink(cli)
    /\ cli' = SSLClient_connectEndpoint(
                  [cli EXCEPT !.connects = @ - 1, !.linked = @ \/ err = NoError], err)
    /\ UNCHANGED <<cq, chpc, cwire, caccepted, crecv, cupc, ccalls>>

\* async_handshake completes: handshake_handler
SHandshakeComplete(err) ==
    /\ chpc = CIdle
    /\ cli.handshakes > 0
    /\ cli' = SSLClient_handshakeHandler([cli EXCEPT !.handshakes = @ - 1], err)
    /\ UNCHANGED <<cq, chpc, cwire, caccepted, crecv, cupc, ccalls>>

\* SSL::Client::disconnectAsync on a user thread
SU_disconnectAsync ==
    /\ cli.tls
    /\ ccalls.disconnect < MaxDisconnectCalls
    /\ cq' = IF ~cli.connected \/ cli.connecting \/ cli.handshaking
             THEN cq ELSE Append(cq, "disconnect")
    /\ ccalls' = [ccalls EXCEPT !.disconnect = @ + 1]
    /\ UNCHANGED <<cli, chpc, cwire, caccepted, crecv, cupc>>

\* disconnect_handler, posted by SSL::Client::disconnectAsync
SRunDisconnect ==
    /\ cli.tls
    /\ CHeadIs("disconnect")
    /\ cli' = SSLClient_disconnectHandler(cli)
    /\ cq' = Tail(cq)
    /\ UNCHANGED <<chpc, cwire, caccepted, crecv, cupc, ccalls>>

\* async_shutdown completes: shutdown_handler calls disconnect()
SShutdownComplete ==
    /\ chpc = CIdle
    /\ cli.shutdowns > 0
    /\ cli' = SSLClient_disconnect([cli EXCEPT !.shutdowns = @ - 1])
    /\ UNCHANGED <<cq, chpc, cwire, caccepted, crecv, cupc, ccalls>>

\* disconnect() on a user thread
CU_disconnect ==
    /\ ccalls.disconnect < MaxDisconnectCalls
    /\ cli' = Client_disconnectVirtual(cli)
    /\ ccalls' = [ccalls EXCEPT !.disconnect = @ + 1]
    /\ UNCHANGED <<cq, chpc, cwire, caccepted, crecv, cupc>>

\* SSL::Client::connect on a user thread: the test of the flags, then
\* socket().connect blocks
\* Client::connect on a user thread
CU_connect(err) ==
    /\ ~cli.tls
    /\ cupc.connect = "idle"
    /\ ccalls.connectSync < MaxSyncConnects
    /\ ccalls' = [ccalls EXCEPT !.connectSync = @ + 1]
    /\ IF cli.connected
       THEN /\ err = NoError
            /\ cli' = cli
            /\ cupc' = [cupc EXCEPT !.ret = "false", !.tried = FALSE]
       ELSE /\ err = NoError => ~cli.linked /\ cli.connects = 0
            /\ cli' = Client_connect([cli EXCEPT !.open = TRUE,
                                                 !.linked = @ \/ err = NoError], err)
            /\ cupc' = [cupc EXCEPT !.ret = IF err = NoError THEN "true" ELSE "false",
                                    !.tried = TRUE]
    /\ UNCHANGED <<cq, chpc, cwire, caccepted, crecv>>

SU_connect ==
    /\ cli.tls
    /\ cupc.connect = "idle"
    /\ ccalls.connectSync < MaxSyncConnects
    /\ ccalls' = [ccalls EXCEPT !.connectSync = @ + 1]
    /\ IF SSLClient_busy(cli)
       THEN /\ cli' = cli
            /\ cupc' = [cupc EXCEPT !.ret = "false", !.tried = FALSE]
       ELSE /\ cli' = [cli EXCEPT !.open = TRUE]
            /\ cupc' = [cupc EXCEPT !.connect = "connect", !.ret = "none", !.tried = TRUE]
    /\ UNCHANGED <<cq, chpc, cwire, caccepted, crecv>>

\* ... socket().connect returns; on success _stream.handshake blocks
SU_connect_returned(err) ==
    /\ cupc.connect = "connect"
    /\ err = NoError => CanLink(cli)
    /\ cli' = SSLClient_connectReturned([cli EXCEPT !.linked = @ \/ err = NoError], err)
    /\ cupc' = [cupc EXCEPT !.connect = IF err = NoError THEN "handshake" ELSE "idle",
                            !.ret = IF err = NoError THEN "none" ELSE "false"]
    /\ UNCHANGED <<cq, chpc, cwire, caccepted, crecv, ccalls>>

\* ... _stream.handshake returns
SU_connect_handshaked(err) ==
    /\ cupc.connect = "handshake"
    /\ cli' = SSLClient_handshakeReturned(cli, err)
    /\ cupc' = [cupc EXCEPT !.connect = "idle",
                            !.ret = IF err = NoError THEN "true" ELSE "false"]
    /\ UNCHANGED <<cq, chpc, cwire, caccepted, crecv, ccalls>>

InitReady ==
    /\ ServerUnused
    /\ cli \in {[Client_Client(0, 0) EXCEPT !.tls = b] : b \in BOOLEAN}
    /\ cq = <<>>
    /\ chpc = CIdle
    /\ cwire = <<>>
    /\ caccepted = <<>>
    /\ crecv = <<>>
    /\ cupc = CUserIdle
    /\ ccalls = NoClientCalls
    /\ net = NetUnused
    /\ svc = ServiceUnused
    /\ tsend = NoTimedSend
    /\ hmem = MemUnused

NextReady ==
    \/ ~cli.tls /\ ccalls.connect < MaxReadyConnects /\ CU_connectAsync /\ UNCHANGED <<serverVars, net, svc, tsend, hmem>>
    \/ ~cli.tls /\ CRunConnect /\ UNCHANGED <<serverVars, net, svc, tsend, hmem>>
    \/ \E e \in {NoError} \cup ConnectErrors :
          ~cli.tls /\ CConnectComplete(e) /\ UNCHANGED <<serverVars, net, svc, tsend, hmem>>
    \/ ~cli.tls /\ ccalls.disconnect < MaxReadyDisconnects /\ CU_disconnectAsync /\ UNCHANGED <<serverVars, net, svc, tsend, hmem>>
    \/ ~cli.tls /\ CRunDisconnect /\ UNCHANGED <<serverVars, net, svc, tsend, hmem>>
    \/ ccalls.connect < MaxReadyConnects /\ SU_connectAsync /\ UNCHANGED <<serverVars, net, svc, tsend, hmem>>
    \/ SRunConnect /\ UNCHANGED <<serverVars, net, svc, tsend, hmem>>
    \/ \E e \in {NoError} \cup ConnectErrors : SConnectComplete(e) /\ UNCHANGED <<serverVars, net, svc, tsend, hmem>>
    \/ \E e \in {NoError, HandshakeFailed} : SHandshakeComplete(e) /\ UNCHANGED <<serverVars, net, svc, tsend, hmem>>
    \/ ccalls.disconnect < MaxReadyDisconnects /\ SU_disconnectAsync /\ UNCHANGED <<serverVars, net, svc, tsend, hmem>>
    \/ SRunDisconnect /\ UNCHANGED <<serverVars, net, svc, tsend, hmem>>
    \/ SShutdownComplete /\ UNCHANGED <<serverVars, net, svc, tsend, hmem>>
    \/ ccalls.disconnect < MaxReadyDisconnects /\ CU_disconnect /\ UNCHANGED <<serverVars, net, svc, tsend, hmem>>
    \/ SU_connect /\ UNCHANGED <<serverVars, net, svc, tsend, hmem>>
    \/ \E e \in {NoError} \cup ConnectErrors : SU_connect_returned(e) /\ UNCHANGED <<serverVars, net, svc, tsend, hmem>>
    \/ \E e \in {NoError, HandshakeFailed} : SU_connect_handshaked(e) /\ UNCHANGED <<serverVars, net, svc, tsend, hmem>>
    \/ \E e \in {NoError} \cup ConnectErrors : CU_connect(e) /\ UNCHANGED <<serverVars, net, svc, tsend, hmem>>
    \/ \E n \in 1..MaxReadyPayload : ccalls.send < MaxReadySends /\ CU_sendAsync(n) /\ UNCHANGED <<serverVars, net, svc, tsend, hmem>>
    \/ CU_sendAsync_locked /\ UNCHANGED <<serverVars, net, svc, tsend, hmem>>
    \/ CRunTrySend /\ UNCHANGED <<serverVars, net, svc, tsend, hmem>>
    \/ \E n \in 1..MaxReadyPayload, o \in SyncOutcomes(MaxReadyPayload, MaxReadyPayload) :
          CU_send(n, o) /\ UNCHANGED <<serverVars, net, svc, tsend, hmem>>
    \/ \E n \in 1..MaxReadyPayload, o \in SyncOutcomes(MaxReadyPayload, MaxReadyPayload) :
          CU_receive(n, o) /\ UNCHANGED <<serverVars, net, svc, tsend, hmem>>
    \/ \E o \in (IF cli.writes = <<>> THEN {} ELSE CWriteOutcomes(cli)) :
          CWriteComplete(o) /\ UNCHANGED <<serverVars, net, svc, tsend, hmem>>
    \/ \E o \in (IF cli.reads = <<>> THEN {} ELSE CReadOutcomes(cli)) :
          CReadComplete(o[1], Zeros(o[2])) /\ UNCHANGED <<serverVars, net, svc, tsend, hmem>>
    \/ CReadResume /\ UNCHANGED <<serverVars, net, svc, tsend, hmem>>

SpecReady == InitReady /\ [][NextReady]_vars

----------------------------------------------------------------------------
(* One SSL::Session of an SSL::Server: the handshake in server role runs    *)
(* while user threads call sendAsync and disconnect.  The handlers of the   *)
(* Session's stream run on the Session's loop.                              *)

MaxHandshakeSends == 2      \* sendAsync calls made on the SSL::Session
MaxHandshakeRecv == 2       \* bytes the peer delivers to the SSL::Session

\* What an outstanding async_handshake can complete with
HandshakeOutcomes(s) ==
    IF s.open THEN {NoError, HandshakeFailed} ELSE {NoError, OperationAborted}

\* async_handshake completes: async_handshake_handler
HandshakeComplete(i, err) ==
    /\ hpc[SessionLoop(i)] = Idle
    /\ sess[i].handshake = "pending"
    /\ LET r == SSLSession_handshakeHandler(sess[i], err)
       IN  /\ sess' = [sess EXCEPT ![i] = r[1]]
           /\ srv' = IF r[2] THEN [srv EXCEPT !.onHandshaked = @ + 1] ELSE srv
           /\ ioq' = IF r[3] THEN Post(ioq, SessionLoop(i), Closure("disconnect", i)) ELSE ioq
    /\ UNCHANGED <<hpc, wire, accepted, upc, calls, mlog>>

HandshakeReadOutcomes(s) ==
    IF s.open
    THEN {<<NoError, n>> : n \in 1..Min(s.receive_buff, MaxHandshakeRecv - s.bytes_received)}
         \cup {<<"eof", 0>>}
    ELSE {<<OperationAborted, 0>>}

InitHandshake ==
    /\ sess = [i \in SessionIds |->
                 IF i = 1 THEN [Session_Session(0, 0) EXCEPT !.tls = TRUE]
                 ELSE Session_Session(0, 0)]
    /\ srv = Server_startHandler(Server_Server(1))
    /\ ioq = [l \in LoopIds |-> <<>>]
    /\ hpc = [l \in LoopIds |-> Idle]
    /\ wire = [i \in SessionIds |-> <<>>]
    /\ accepted = [i \in SessionIds |-> <<>>]
    /\ upc = UserIdle
    /\ calls = NoCalls
    /\ mlog = <<>>
    /\ ClientUnused

\* The handlers the worker threads run once they are queued
HandshakeLoopStep ==
    \/ RunTrySend(1)
    \/ RunDisconnect(1)
    \/ RunUnregister
    \/ \E l \in LoopIds : WriteCounted(l)
    \/ \E l \in LoopIds : ReadCounted(l)
    \/ \E l \in LoopIds : ReadResume(l)

NextHandshake ==
    \/ AcceptComplete(NoError) /\ UNCHANGED <<clientVars, net, svc, tsend, hmem>>
    \/ \E e \in HandshakeOutcomes(sess[1]) : HandshakeComplete(1, e) /\ UNCHANGED <<clientVars, net, svc, tsend, hmem>>
    \/ calls.send < MaxHandshakeSends /\ U_sendAsync(1, 1) /\ UNCHANGED <<clientVars, net, svc, tsend, hmem>>
    \/ U_sendAsync_locked /\ UNCHANGED <<clientVars, net, svc, tsend, hmem>>
    \/ U_disconnect(1) /\ UNCHANGED <<clientVars, net, svc, tsend, hmem>>
    \/ RunTrySend(1) /\ UNCHANGED <<clientVars, net, svc, tsend, hmem>>
    \/ RunDisconnect(1) /\ UNCHANGED <<clientVars, net, svc, tsend, hmem>>
    \/ RunUnregister /\ UNCHANGED <<clientVars, net, svc, tsend, hmem>>
    \/ \E o \in (IF sess[1].writes = <<>> THEN {} ELSE WriteOutcomes(sess[1])) :
          WriteComplete(1, o) /\ UNCHANGED <<clientVars, net, svc, tsend, hmem>>
    \/ \E l \in LoopIds : WriteCounted(l) /\ UNCHANGED <<clientVars, net, svc, tsend, hmem>>
    \/ \E l \in LoopIds : ReadCounted(l) /\ UNCHANGED <<clientVars, net, svc, tsend, hmem>>
    \/ \E o \in (IF sess[1].reads = 0 THEN {} ELSE HandshakeReadOutcomes(sess[1])) :
          ReadComplete(1, o[1], Zeros(o[2])) /\ UNCHANGED <<clientVars, net, svc, tsend, hmem>>
    \/ \E l \in LoopIds : ReadResume(l) /\ UNCHANGED <<clientVars, net, svc, tsend, hmem>>

SpecHandshake == InitHandshake /\ [][NextHandshake]_vars

\* The worker thread of every loop runs the handlers queued to it; what the
\* peer and the user threads do comes as it may
SpecHandshakeFair ==
    SpecHandshake /\ WF_vars(HandshakeLoopStep /\ UNCHANGED <<clientVars, net, svc, tsend, hmem>>)

----------------------------------------------------------------------------
(* One Session whose peer sends enough to fill the receive buffer more than *)
(* once, under user threads calling receiveAsync and disconnect.           *)

MaxReceive == 6             \* bytes the peer delivers over a run
ReceiveLimits == {0, 2, 4}  \* values given to setReceiveBuffLimit (0: unlimited)

\* The outcomes of an async_read_some: up to a full buffer of data, or an error
ReceiveOutcomes(s) ==
    IF s.open
    THEN {<<NoError, n>> : n \in 1..Min(s.receive_buff, MaxReceive - s.bytes_received)}
         \cup {<<e, 0>> : e \in IoErrors}
    ELSE {<<OperationAborted, 0>>}

InitReceive ==
    /\ sess \in [SessionIds -> {Session_Session(0, rl) : rl \in ReceiveLimits}]
    /\ \A i \in SessionIds : i # 1 => sess[i] = Session_Session(0, 0)
    /\ srv = Server_startHandler(Server_Server(1))
    /\ ioq = [l \in LoopIds |-> <<>>]
    /\ hpc = [l \in LoopIds |-> Idle]
    /\ wire = [i \in SessionIds |-> <<>>]
    /\ accepted = [i \in SessionIds |-> <<>>]
    /\ upc = UserIdle
    /\ calls = NoCalls
    /\ mlog = <<>>
    /\ ClientUnused

NextReceive ==
    \/ AcceptComplete(NoError) /\ UNCHANGED <<clientVars, net, svc, tsend, hmem>>
    \/ U_receiveAsync(1) /\ UNCHANGED <<clientVars, net, svc, tsend, hmem>>
    \/ U_receiveAsync_issue /\ UNCHANGED <<clientVars, net, svc, tsend, hmem>>
    \/ U_disconnect(1) /\ UNCHANGED <<clientVars, net, svc, tsend, hmem>>
    \/ RunDisconnect(1) /\ UNCHANGED <<clientVars, net, svc, tsend, hmem>>
    \/ RunUnregister /\ UNCHANGED <<clientVars, net, svc, tsend, hmem>>
    \/ \E o \in ReceiveOutcomes(sess[1]) :
          ReadComplete(1, o[1], Zeros(o[2])) /\ UNCHANGED <<clientVars, net, svc, tsend, hmem>>
    \/ \E l \in LoopIds : ReadCounted(l) /\ UNCHANGED <<clientVars, net, svc, tsend, hmem>>
    \/ \E l \in LoopIds : ReadResume(l) /\ UNCHANGED <<clientVars, net, svc, tsend, hmem>>

SpecReceive == InitReceive /\ [][NextReceive]_vars

----------------------------------------------------------------------------
(* The life of a Server: user threads call stop, start and restart while   *)
(* connections arrive and peers close them.  The completion of an          *)
(* async_accept is queued to the Server's loop like any other handler: it  *)
(* runs after the handlers queued before it.                               *)

MaxStopCalls == 1       \* calls of Server::stop by user threads
MaxStartCalls == 1      \* calls of Server::start by user threads
MaxRestartCalls == 1    \* calls of Server::restart

Alive == ~srv.crashed

\* assert(!isStarted()) in Server::start: the process is aborted when asserts
\* are compiled in, the call returns false otherwise
AssertOutcomes == {"abort", "false"}

\* What the completion of an async_accept does when the Session whose socket it
\* was given is gone (_session was reset or replaced): it assigns to the socket
\* of a destroyed Session and, _session being empty, calls through a null
\* pointer.  The behaviour is undefined: a fault, or nothing visible.
DanglingOutcomes == {"fault", "nothing"}

\* A connection arrives: the outstanding async_accept is performed and its
\* completion queued to the Server's loop
AcceptPerformed ==
    /\ Alive
    /\ srv.accepting > 0
    /\ srv.acceptor_open
    /\ srv.session # 0
    /\ srv' = [srv EXCEPT !.accepting = @ - 1]
    /\ ioq' = Post(ioq, ServerLoop, Closure("accepted", srv.session))
    /\ UNCHANGED <<sess, hpc, wire, accepted, upc, calls, mlog>>

\* Server::accept: async_handler run for a connection that was accepted
RunAccepted(o) ==
    /\ Alive
    /\ HeadIs(ServerLoop, "accepted")
    /\ upc.mcast = {}     \* registerSession waits for _sessions_lock
    /\ ioq' = Pop(ioq, ServerLoop)
    /\ LET i == Head(ioq[ServerLoop]).sess
       IN  IF srv.session = i
           THEN /\ o = "nothing"
                /\ sess' = [sess EXCEPT ![i] = Session_connectVirtual([@ EXCEPT !.open = TRUE])]
                /\ srv' = Server_accept([Server_registerSession(srv) EXCEPT !.onConnect = @ + 1])
           ELSE /\ sess' = sess
                /\ srv' = IF o = "fault" THEN [srv EXCEPT !.crashed = TRUE] ELSE srv
    /\ UNCHANGED <<hpc, wire, accepted, upc, calls, mlog>>

\* Server::accept: async_handler run for an async_accept the close of the
\* acceptor cancelled
RunAcceptAborted ==
    /\ Alive
    /\ HeadIs(ServerLoop, "accept_aborted")
    /\ ioq' = Pop(ioq, ServerLoop)
    /\ srv' = Server_accept(Server_err(srv, OperationAborted))
    /\ UNCHANGED <<sess, hpc, wire, accepted, upc, calls, mlog>>

\* Server::stop on a user thread
\* The async_accept outstanding on a started Server fails (the peer reset the
\* connection before accept(2), or the process ran out of descriptors): its
\* completion is queued with that error.
AcceptFailed(e) ==
    /\ Alive
    /\ srv.accepting > 0
    /\ srv.acceptor_open
    /\ srv.session # 0
    /\ srv' = [srv EXCEPT !.accepting = @ - 1]
    /\ ioq' = Post(ioq, ServerLoop, Closure(e, srv.session))
    /\ UNCHANGED <<sess, hpc, wire, accepted, upc, calls, mlog>>

\* async_handler with that error: err(err), then accept().
RunAcceptFailed(e) ==
    /\ Alive
    /\ HeadIs(ServerLoop, e)
    /\ ioq' = Pop(ioq, ServerLoop)
    /\ srv' = Server_accept(Server_err(srv, e))
    /\ UNCHANGED <<sess, hpc, wire, accepted, upc, calls, mlog>>

U_stop ==
    /\ Alive
    /\ calls.stop < MaxStopCalls
    /\ ioq' = IF Server_stop(srv) THEN Post(ioq, ServerLoop, Closure("stop", 0)) ELSE ioq
    /\ calls' = [calls EXCEPT !.stop = @ + 1]
    /\ UNCHANGED <<sess, srv, hpc, wire, accepted, upc, mlog>>

\* _acceptor.close(): the completion of every async_accept outstanding is queued
\* with operation_aborted
RECURSIVE PostAborted(_, _)
PostAborted(q, n) ==
    IF n = 0 THEN q ELSE PostAborted(Post(q, ServerLoop, Closure("accept_aborted", 0)), n - 1)

\* The handler posted by Server::stop; disconnectAll, dispatched from the
\* Server's loop, runs inside it
RunStop ==
    /\ Alive
    /\ HeadIs(ServerLoop, "stop")
    /\ upc.mcast = {} \/ ~srv.started
    /\ LET q == Pop(ioq, ServerLoop)
       IN  ioq' = IF srv.started
                  THEN PostDisconnects(PostAborted(q, srv.accepting), srv.sessions)
                  ELSE q
    /\ srv' = [Server_stopHandler(srv) EXCEPT !.accepting = IF srv.started THEN 0 ELSE @]
    /\ UNCHANGED <<sess, hpc, wire, accepted, upc, calls, mlog>>

\* Server::start on a user thread
U_start(o) ==
    /\ Alive
    /\ calls.start < MaxStartCalls
    /\ IF Server_start(srv)
       THEN /\ o = "false"
            /\ ioq' = Post(ioq, ServerLoop, Closure("start", 0))
            /\ srv' = srv
       ELSE /\ ioq' = ioq
            /\ srv' = [srv EXCEPT !.crashed = (o = "abort")]
    /\ calls' = [calls EXCEPT !.start = @ + 1]
    /\ UNCHANGED <<sess, hpc, wire, accepted, upc, mlog>>

\* The handler posted by Server::start
RunStart ==
    /\ Alive
    /\ HeadIs(ServerLoop, "start")
    /\ ioq' = Pop(ioq, ServerLoop)
    /\ srv' = Server_startHandler(srv)
    /\ UNCHANGED <<sess, hpc, wire, accepted, upc, calls, mlog>>

\* Server::restart on a user thread: `if (!stop()) return false;`
U_restart ==
    /\ Alive
    /\ calls.restart < MaxRestartCalls
    /\ upc.restart = "idle"
    /\ ioq' = IF Server_stop(srv) THEN Post(ioq, ServerLoop, Closure("stop", 0)) ELSE ioq
    /\ upc' = [upc EXCEPT !.restart = IF Server_stop(srv) THEN "wait" ELSE "not_stopped"]
    /\ calls' = [calls EXCEPT !.restart = @ + 1]
    /\ UNCHANGED <<sess, srv, hpc, wire, accepted, mlog>>

\* ... `while (!isStarted()) yield;`: the loop is left once isStarted is true
U_restart_wait ==
    /\ Alive
    /\ upc.restart = "wait"
    /\ srv.started
    /\ upc' = [upc EXCEPT !.restart = "start"]
    /\ UNCHANGED <<sess, srv, ioq, hpc, wire, accepted, calls, mlog>>

\* ... `return start();`
U_restart_start(o) ==
    /\ Alive
    /\ upc.restart = "start"
    /\ IF Server_start(srv)
       THEN /\ o = "false"
            /\ ioq' = Post(ioq, ServerLoop, Closure("start", 0))
            /\ srv' = srv
            /\ upc' = [upc EXCEPT !.restart = "true"]
       ELSE /\ ioq' = ioq
            /\ srv' = [srv EXCEPT !.crashed = (o = "abort")]
            /\ upc' = [upc EXCEPT !.restart = o]
    /\ UNCHANGED <<sess, hpc, wire, accepted, calls, mlog>>

\* The outcomes of a read of a Session whose peer sends nothing: the peer
\* closes the connection, or the read is cancelled
LifeReadOutcomes(s) ==
    IF s.reads = 0 THEN {} ELSE {o \in ReadOutcomes(s) : o[1] \in {"eof", OperationAborted}}

InitLifecycle ==
    /\ sess = [i \in SessionIds |-> Session_Session(0, 0)]
    /\ srv = Server_startHandler(Server_Server(NumSessions))
    /\ ioq = [l \in LoopIds |-> <<>>]
    /\ hpc = [l \in LoopIds |-> Idle]
    /\ wire = [i \in SessionIds |-> <<>>]
    /\ accepted = [i \in SessionIds |-> <<>>]
    /\ upc = UserIdle
    /\ calls = NoCalls
    /\ mlog = <<>>
    /\ ClientUnused

\* The handlers the worker thread of loop l runs
LoopStep(l) ==
    \/ l = ServerLoop /\ \E o \in DanglingOutcomes : RunAccepted(o)
    \/ l = ServerLoop /\ RunAcceptAborted
    \/ l = ServerLoop /\ \E e \in AcceptErrors : RunAcceptFailed(e)
    \/ l = ServerLoop /\ RunStop
    \/ l = ServerLoop /\ RunStart
    \/ l = ServerLoop /\ Alive /\ RunUnregister
    \/ \E i \in SessionIds : SessionLoop(i) = l /\ Alive /\ RunDisconnect(i)
    \/ \E i \in SessionIds : \E o \in LifeReadOutcomes(sess[i]) :
          SessionLoop(i) = l /\ Alive /\ o[1] = OperationAborted
             /\ ReadComplete(i, o[1], <<>>)

\* The steps of the thread inside Server::restart
RestartStep ==
    \/ U_restart_wait
    \/ \E o \in AssertOutcomes : U_restart_start(o)

NextLifecycle ==
    \/ AcceptPerformed /\ UNCHANGED <<clientVars, net, svc, tsend, hmem>>
    \/ \E o \in DanglingOutcomes : RunAccepted(o) /\ UNCHANGED <<clientVars, net, svc, tsend, hmem>>
    \/ RunAcceptAborted /\ UNCHANGED <<clientVars, net, svc, tsend, hmem>>
    \/ \E e \in AcceptErrors : AcceptFailed(e) /\ UNCHANGED <<clientVars, net, svc, tsend, hmem>>
    \/ \E e \in AcceptErrors : RunAcceptFailed(e) /\ UNCHANGED <<clientVars, net, svc, tsend, hmem>>
    \/ U_stop /\ UNCHANGED <<clientVars, net, svc, tsend, hmem>>
    \/ RunStop /\ UNCHANGED <<clientVars, net, svc, tsend, hmem>>
    \/ \E o \in AssertOutcomes : U_start(o) /\ UNCHANGED <<clientVars, net, svc, tsend, hmem>>
    \/ RunStart /\ UNCHANGED <<clientVars, net, svc, tsend, hmem>>
    \/ U_restart /\ UNCHANGED <<clientVars, net, svc, tsend, hmem>>
    \/ U_restart_wait /\ UNCHANGED <<clientVars, net, svc, tsend, hmem>>
    \/ \E o \in AssertOutcomes : U_restart_start(o) /\ UNCHANGED <<clientVars, net, svc, tsend, hmem>>
    \/ \E i \in SessionIds : Alive /\ RunDisconnect(i) /\ UNCHANGED <<clientVars, net, svc, tsend, hmem>>
    \/ Alive /\ RunUnregister /\ UNCHANGED <<clientVars, net, svc, tsend, hmem>>
    \/ \E i \in SessionIds : \E o \in LifeReadOutcomes(sess[i]) :
          Alive /\ ReadComplete(i, o[1], <<>>) /\ UNCHANGED <<clientVars, net, svc, tsend, hmem>>

SpecLifecycle == InitLifecycle /\ [][NextLifecycle]_vars

\* The worker thread of every loop runs the handlers queued to it and the
\* thread inside restart goes on; connections and user calls come as they may
SpecLifecycleFair ==
    /\ SpecLifecycle
    /\ \A l \in LoopIds : WF_vars(LoopStep(l) /\ UNCHANGED <<clientVars, net, svc, tsend, hmem>>)
    /\ WF_vars(RestartStep /\ UNCHANGED <<clientVars, net, svc, tsend, hmem>>)

----------------------------------------------------------------------------
(* Claims about one Session *)

\* C1: every Session has at most one asynchronous write and at most one
\* asynchronous read outstanding, under any interleaving of the user-thread
\* calls sendAsync, receiveAsync and disconnect with the completion handlers.
C1_AtMostOneOutstanding ==
    \A i \in SessionIds : Len(sess[i].writes) <= 1 /\ sess[i].reads <= 1

\* C2: the bytes a Session's socket reported written, partial writes included,
\* are a prefix of the bytes sendAsync accepted, in call order.
C2_WrittenIsPrefixOfAccepted ==
    \A i \in SessionIds : IsPrefix(wire[i], accepted[i])

\* C2 witness: two payloads were accepted and written in three completions, so
\* one of them went out in two partial writes.
C2_Witness ==
    /\ Len(accepted[1]) = 3
    /\ wire[1] = accepted[1]
    /\ calls.send = 2
    /\ sess[1].onSend = 3

\* C4: bytes_pending equals the length of the send-main buffer whenever the
\* send lock is free (the locked blocks are single steps, so in every state).
C4_PendingIsMainSize ==
    \A i \in SessionIds : sess[i].bytes_pending = Len(sess[i].send_buff_main)

\* C4 witness: a write is in flight from a swapped flush buffer while a later
\* payload waits in send-main.
C4_Witness ==
    /\ sess[1].sending
    /\ sess[1].send_buff_flush # <<>>
    /\ sess[1].send_flush_offset > 0
    /\ sess[1].bytes_pending > 0

\* A sendAsync of n bytes on Session i would exceed its send limit
OverSendLimit(i, n) ==
    sess[i].send_limit > 0 /\ Len(sess[i].send_buff_main) + n > sess[i].send_limit

\* What a refused sendAsync on Session i leaves behind: onError was called once,
\* nothing else of the Session differs, nothing was accepted nor scheduled
RefusedSend(i) ==
    /\ sess' = [sess EXCEPT ![i].onError = @ + 1]
    /\ UNCHANGED <<srv, ioq, wire, accepted>>

C13_ReceiveLimitDisconnectsElseDoubles ==
    [][\A l \in LoopIds :
          (hpc[l].pc = "onReceived" /\ hpc'[l].pc = "idle") =>
              LET i == hpc[l].sess
                  n == Len(hpc[l].data)
                  s == sess[i]
                  t == sess'[i]
              IN  n = s.receive_buff =>
                      IF s.receive_limit > 0 /\ 2 * n > s.receive_limit
                      THEN /\ t.onError = s.onError + 1
                           /\ t.onDisconnect = s.onDisconnect + 1
                           /\ srv'.onDisconnect = srv.onDisconnect + 1
                           /\ ~t.connected /\ ~t.open /\ ~t.receiving
                           /\ t.receive_buff = n
                           /\ t.reads = s.reads
                      ELSE /\ t.receive_buff = 2 * n
                           /\ hpc[l].err = NoError =>
                                 /\ t.connected /\ t.receiving
                                 /\ t.reads = IF s.receiving THEN s.reads ELSE s.reads + 1
                                 /\ t.onError = s.onError
                                 /\ t.onDisconnect = s.onDisconnect]_vars

\* With a limit of 4 a full read of 2 bytes doubled the buffer and the next
\* full read, of 4 bytes, disconnected the Session
C13_Witness ==
    /\ sess[1].receive_limit = 4
    /\ sess[1].bytes_received = 6
    /\ sess[1].receive_buff = 4
    /\ sess[1].onError = 1
    /\ sess[1].onDisconnect = 1
    /\ calls.disconnect = 0

----------------------------------------------------------------------------
(* Claims about one Client *)

\* C3: every write a Client's trySend issues covers exactly the bytes of the
\* flush buffer from the flush offset to its end, so that after a partial
\* write no byte already written is transmitted again.
C3_WriteCoversUnwrittenTail ==
    \A k \in DOMAIN cli.writes :
        ~cli.writes[k].aborted =>
            cli.writes[k].buf = Tail0(cli.send_buff_flush, cli.send_flush_offset)

\* C10: every successful connectAsync invokes onConnect exactly once for the
\* connection it establishes.
C10_OnConnectOncePerConnection ==
    cli.onConnect = cli.established

----------------------------------------------------------------------------
(* Claims about a Server and its Sessions *)

\* The payloads of the multicasts that should have reached Session i, in call
\* order: those of the calls k whose loop has visited i and for which keep[k]
RECURSIVE Copies(_, _, _)
Copies(i, k, keep) ==
    IF k = 0 THEN <<>>
    ELSE Copies(i, k - 1, keep)
           \o (IF keep[k] /\ ~(k = Len(mlog) /\ i \in upc.mcast)
               THEN mlog[k].payload ELSE <<>>)

RECURSIVE SumOver(_, _)
SumOver(S, f) ==
    IF S = {} THEN 0
    ELSE LET i == CHOOSE j \in S : TRUE IN f[i] + SumOver(S \ {i}, f)

\* C7: whenever no completion handler is between its load and its store, the
\* Server's _bytes_sent and _bytes_received are the sums of what its Sessions
\* added to their own counters; no increment is lost.
C7_ServerCountersAreSums ==
    (\A l \in LoopIds : hpc[l].pc \notin {"bytes_sent", "bytes_received"}) =>
        /\ srv.bytes_sent = SumOver(SessionIds, [i \in SessionIds |-> sess[i].bytes_sent])
        /\ srv.bytes_received = SumOver(SessionIds, [i \in SessionIds |-> sess[i].bytes_received])

\* The unregister closures posted to the Server's loop and not run yet
PendingUnregisters ==
    Cardinality({k \in DOMAIN ioq[ServerLoop] : ioq[ServerLoop][k].kind = "unregister"})

C9_ConnectAndDisconnectOnce ==
    /\ \A i \in SessionIds :
          /\ sess[i].onConnect <= 1
          /\ sess[i].connected => sess[i].onConnect = 1
          /\ sess[i].onDisconnect = (IF sess[i].onConnect = 1 /\ ~sess[i].connected THEN 1 ELSE 0)
    /\ srv.onConnect = SumOver(SessionIds, [i \in SessionIds |-> sess[i].onConnect])
    /\ srv.onDisconnect = SumOver(SessionIds, [i \in SessionIds |-> sess[i].onDisconnect])

\* disconnect was called by a user thread and by disconnectAll for a Session
\* that a write error had disconnected; every closure has run
C9_Witness ==
    /\ calls.disconnect = 1
    /\ calls.disconnectAll = 1
    /\ \A l \in LoopIds : ioq[l] = <<>> /\ hpc[l] = Idle
    /\ \E i \in SessionIds : sess[i].onError = 1 /\ sess[i].onDisconnect = 1
    /\ srv.onDisconnect = 2

\* C11: a call of disconnect on a Session whose connected flag is false returns
\* false and changes nothing: no callback counter, buffer, byte counter, socket
\* operation, posted closure nor the registry differs after the call.
C11_DisconnectOfDisconnectedIsNoOp ==
    [][\A i \in SessionIds :
          (~sess[i].connected /\ U_disconnect(i)) =>
              /\ calls'.refused = calls.refused + 1
              /\ UNCHANGED <<sess, srv, ioq, hpc, wire, accepted, upc, mlog>>]_vars

\* disconnect was called and returned false for a Session that the end of its
\* peer's stream had disconnected and unregistered
C11_Witness ==
    /\ calls.refused = 1
    /\ \E i \in SessionIds :
          /\ sess[i].onConnect = 1 /\ sess[i].onDisconnect = 1
          /\ i \notin srv.sessions
    /\ \A l \in LoopIds : ioq[l] = <<>>

----------------------------------------------------------------------------
(* Claims about the life of a Server *)

\* No user thread has called stop or start beside the one inside restart
RestartAlone == calls.stop = 0 /\ calls.start = 0

\* The Server runs again after one restart: onStop was called once, onStart
\* once more, an accept is armed and every Session in the registry is one
\* connected since
Restarted ==
    /\ srv.started
    /\ srv.onStop = 1 /\ srv.onStart = 2
    /\ srv.accepting > 0
    /\ \A i \in srv.sessions : sess[i].connected

\* C14: restart called on a started Server terminates and returns true, and the
\* Server is eventually started again - onStop then onStart called once each,
\* an accept armed, no Session from before the restart in the registry.
C14_RestartReturnsTrueAndRestarts ==
    /\ [](upc.restart \notin {"false", "abort"})
    /\ (upc.restart = "wait") ~> (upc.restart = "true")
    /\ (upc.restart = "true" /\ RestartAlone) ~> (Restarted \/ ~RestartAlone)

\* C15: once stop has taken effect on a started Server no new Session is
\* accepted, every Session then registered is eventually disconnected
\* (onDisconnect called) and removed, and the registry eventually becomes
\* empty and stays so - until the Server is started again.
C15_StopDisconnectsAndEmptiesRegistry ==
    /\ [][~srv.started => srv'.onConnect = srv.onConnect]_vars
    /\ \A i \in SessionIds :
          (~srv.started /\ i \in srv.sessions)
             ~> ((sess[i].onDisconnect = 1 /\ i \notin srv.sessions) \/ srv.started)
    /\ (~srv.started) ~> (srv.sessions = {} \/ srv.started)
    /\ [][(~srv.started /\ srv.sessions = {}) => (srv'.sessions = {} \/ srv'.started)]_vars

----------------------------------------------------------------------------
(* Claims about a Client and an echo Server *)

\* Nothing is on its way: no call of sendAsync is in progress, no closure is
\* posted, no handler runs, the send buffers of both ends are empty and each
\* socket has read all that the other one took
Drained ==
    /\ cli.connected /\ sess[1].connected
    /\ ~cupc.send /\ cq = <<>> /\ chpc = CIdle
    /\ cli.send_buff_main = <<>> /\ cli.send_buff_flush = <<>> /\ cli.writes = <<>>
    /\ \A l \in LoopIds : ioq[l] = <<>> /\ hpc[l] = Idle
    /\ sess[1].send_buff_main = <<>> /\ sess[1].send_buff_flush = <<>> /\ sess[1].writes = <<>>
    /\ net.c2s = Len(cwire) /\ net.s2c = Len(wire[1])

\* C5: once all buffers are drained the Client has been handed the bytes it
\* sent, in order, and the byte counters of the Client and of the Server agree.
C5_EchoIdentity ==
    Drained =>
        /\ crecv = caccepted
        /\ cli.bytes_received = cli.bytes_sent
        /\ cli.bytes_sent = srv.bytes_received
        /\ srv.bytes_received = srv.bytes_sent

----------------------------------------------------------------------------
(* Claims about a Client, plain or SSL *)

\* The Client is not ready: not connected, or an SSL::Client that is
\* connected but has not completed its handshake
NotReady == ~cli.connected \/ (cli.tls /\ ~cli.handshaked)

\* A user thread calls send, sendAsync or receive
SendOrReceiveCall ==
    \/ \E n \in 1..MaxReadyPayload : CU_sendAsync(n)
    \/ \E n \in 1..MaxReadyPayload, o \in SyncOutcomes(MaxReadyPayload, MaxReadyPayload) :
          CU_send(n, o) \/ CU_receive(n, o)

\* C16: a call of send, sendAsync or receive made while the Client is not
\* ready returns 0 or false at once and leaves the send buffers, the
\* counters and the socket as they were; and no read or write is issued
\* while the Client is not ready: every operation outstanding on the socket
\* of a Client that is not ready was issued before and has been cancelled.
C16_NotReadyCallsTouchNothing ==
    /\ [][(NotReady /\ SendOrReceiveCall) =>
             /\ ccalls'.refused = ccalls.refused + 1
             /\ UNCHANGED <<cli, cq, chpc, cwire, caccepted, crecv, cupc>>]_vars
    /\ [](NotReady => /\ \A k \in DOMAIN cli.reads : cli.reads[k].aborted
                      /\ \A k \in DOMAIN cli.writes : cli.writes[k].aborted)

\* An SSL::Client refused calls between its connection and its handshake,
\* then completed the handshake and sent
C16_Witness ==
    /\ cli.tls /\ cli.connected /\ cli.handshaked
    /\ ccalls.early = 2
    /\ ccalls.refused = 2
    /\ cli.reads # <<>>

\* The SSL::Client is in the state Handshaked: ready, no connect or handshake in progress
Handshaked == cli.tls /\ cli.connected /\ cli.handshaked /\ ~cli.connecting /\ ~cli.handshaking

\* A user thread is inside a synchronous call that closes the socket, or
\* reports its own failure, itself
SyncCall ==
    \/ CU_disconnect
    \/ \E e \in {NoError} \cup ConnectErrors : SU_connect_returned(e)
    \/ \E e \in {NoError, HandshakeFailed} : SU_connect_handshaked(e)
    \/ \E n \in 1..MaxReadyPayload, o \in SyncOutcomes(MaxReadyPayload, MaxReadyPayload) :
          CU_send(n, o) \/ CU_receive(n, o)

C20_FlagsFollowLifecycle ==
    cli.tls =>
        /\ cli.handshaked => cli.connected
        /\ cli.handshaking => cli.connected /\ ~cli.handshaked
        /\ cli.connecting => ~cli.connected

----------------------------------------------------------------------------
(* Claims about an SSL::Session *)

\* The SSL::Session is ready: connected and handshaked
SessionReady(i) == sess[i].connected /\ sess[i].handshaked

\* C17: no user data is appended to the send buffers of an SSL::Session, and
\* none of it is written to its stream, in a state where the Session is not
\* both connected and handshaked.
C17_NoUserDataUnlessHandshaked ==
    [][\A i \in SessionIds : (sess[i].tls /\ ~SessionReady(i)) =>
          /\ accepted'[i] = accepted[i]
          /\ Len(sess'[i].send_buff_main) <= Len(sess[i].send_buff_main)
          /\ Len(sess'[i].writes) <= Len(sess[i].writes)]_vars

\* C18: onHandshaked of an SSL::Session, and Server::onHandshaked for it, is
\* called at most once, after its onConnect and only when the handshake
\* succeeded; when the handshake failed it is never called, and the Session
\* is disconnected: onDisconnect is eventually called.
C18_HandshakedOnceAndFailureDisconnects ==
    /\ [](\A i \in SessionIds : sess[i].tls =>
             /\ sess[i].onHandshaked <= 1
             /\ sess[i].onHandshaked = 1 => sess[i].onConnect = 1 /\ sess[i].handshake = "ok"
             /\ sess[i].handshake = "failed" => sess[i].onHandshaked = 0)
    /\ [](srv.onHandshaked = Cardinality({i \in SessionIds : sess[i].onHandshaked = 1}))
    /\ \A i \in SessionIds :
          (sess[i].tls /\ sess[i].handshake = "failed")
              ~> (~sess[i].connected /\ sess[i].onDisconnect = 1)

\* The handshake of a connected SSL::Session failed; nobody called
\* disconnect, and the Session has been disconnected and unregistered
C18_Witness ==
    /\ sess[1].tls /\ sess[1].handshake = "failed"
    /\ sess[1].onConnect = 1 /\ sess[1].onError = 1 /\ sess[1].onHandshaked = 0
    /\ calls.disconnect = 0
    /\ ~sess[1].connected /\ sess[1].onDisconnect = 1
    /\ srv.sessions = {} /\ srv.onHandshaked = 0

\* C19: no read is issued on an SSL::Session between connect and the
\* successful completion of its handshake: a Session that has not
\* handshaked has no read outstanding.
C19_NoReadBeforeHandshake ==
    \A i \in SessionIds : (sess[i].tls /\ ~sess[i].handshaked) => sess[i].reads = 0

----------------------------------------------------------------------------
(* The err functions: every error path of a Session, a Client and a Server
   hands its code to err, which decides whether onErr hears of it *)

MaxErrs == 2    \* errors reported to one object's onErr

\* a Session's error path: this->err(code)
SessionErr(i, code) ==
    /\ sess[i].onError < MaxErrs
    /\ sess' = [sess EXCEPT ![i] = Session_errVirtual(@, code)]
    /\ UNCHANGED <<srv, ioq, hpc, wire, accepted, upc, calls, mlog>>

\* a Client's error path: this->err(code)
ClientErr(code) ==
    /\ cli.onError < MaxErrs
    /\ cli' = Client_errVirtual(cli, code)
    /\ UNCHANGED <<cq, chpc, cwire, caccepted, crecv, cupc, ccalls>>

\* a Server's error path: err(code) of the accept handler
ServerErr(code) ==
    /\ srv.onErr < MaxErrs
    /\ srv' = Server_err(srv, code)
    /\ UNCHANGED <<sess, ioq, hpc, wire, accepted, upc, calls, mlog>>

\* Session 1 is an SSL::Session, the others Tcp::Sessions; the Client is either
InitErr ==
    /\ sess = [i \in SessionIds |->
                 IF i = 1 THEN [Session_Session(0, 0) EXCEPT !.tls = TRUE]
                 ELSE Session_Session(0, 0)]
    /\ srv = Server_Server(0)
    /\ ioq = [l \in LoopIds |-> <<>>]
    /\ hpc = [l \in LoopIds |-> Idle]
    /\ wire = [i \in SessionIds |-> <<>>]
    /\ accepted = [i \in SessionIds |-> <<>>]
    /\ upc = UserIdle
    /\ calls = NoCalls
    /\ mlog = <<>>
    /\ cli \in {[Client_Client(0, 0) EXCEPT !.tls = b] : b \in BOOLEAN}
    /\ cq = <<>>
    /\ chpc = CIdle
    /\ cwire = <<>>
    /\ caccepted = <<>>
    /\ crecv = <<>>
    /\ cupc = CUserIdle
    /\ ccalls = NoClientCalls
    /\ net = NetUnused
    /\ svc = ServiceUnused
    /\ tsend = NoTimedSend
    /\ hmem = MemUnused

NextErr ==
    \/ \E i \in SessionIds, code \in ErrorCodes : SessionErr(i, code) /\ UNCHANGED <<clientVars, net, svc, tsend, hmem>>
    \/ \E code \in ErrorCodes : ClientErr(code) /\ UNCHANGED <<serverVars, net, svc, tsend, hmem>>
    \/ \E code \in ErrorCodes : ServerErr(code) /\ UNCHANGED <<clientVars, net, svc, tsend, hmem>>

SpecErr == InitErr /\ [][NextErr]_vars

----------------------------------------------------------------------------
(* A Service started and stopped by user threads, and its worker threads *)

ServiceAlive == ~svc.crashed

Caller(c) == svc.caller[c]

\* thread c returns r from its call
Returned(s, c, r) ==
    [s EXCEPT !.caller[c].pc = "idle", !.caller[c].ret = r, !.caller[c].i = 0]

\* Service::start on user thread c: the assert and the test of isStarted
S_start(c, polling, o) ==
    /\ ServiceAlive
    /\ Caller(c).pc = "idle"
    /\ Caller(c).calls < MaxServiceCalls
    /\ LET s == [svc EXCEPT !.caller[c].calls = @ + 1, !.caller[c].ret = "none"]
       IN  IF svc.started
           THEN svc' = IF o = "abort" THEN [s EXCEPT !.crashed = TRUE]
                       ELSE Returned(s, c, "false")
           ELSE /\ o = "false"
                /\ svc' = [s EXCEPT !.caller[c].pc = "start_post",
                                    !.caller[c].polling = polling,
                                    !.stop_requested = FALSE]

\* ... `_polling = polling; _rr_idx = 0; this->post(start_handler);`
S_start_post(c) ==
    /\ ServiceAlive
    /\ Caller(c).pc = "start_post"
    /\ svc' = [svc EXCEPT !.polling = Caller(c).polling,
                          !.q = Append(@, "start"),
                          !.caller[c].pc = IF svc.threads = 0 THEN "start_wait"
                                           ELSE "start_spawn",
                          !.caller[c].i = 1]

\* ... `_threads[i] = std::thread(...)`: assigning to a std::thread that is
\* joinable calls std::terminate
S_start_spawn(c) ==
    /\ ServiceAlive
    /\ Caller(c).pc = "start_spawn"
    /\ LET i == Caller(c).i
       IN  IF svc.joinable[i]
           THEN svc' = [svc EXCEPT !.crashed = TRUE]
           ELSE svc' = [svc EXCEPT !.joinable[i] = TRUE,
                                   !.worker[i] = "init",
                                   !.caller[c].i = i + 1,
                                   !.caller[c].pc = IF i = svc.threads THEN "start_wait"
                                                    ELSE "start_spawn"]

\* ... `while (!isStarted()) yield; return true;`
S_start_wait(c) ==
    /\ ServiceAlive
    /\ Caller(c).pc = "start_wait"
    /\ svc.started
    /\ svc' = Returned(svc, c, "true")

\* Service::stop on user thread c: the assert and the test of isStarted
S_stop(c, o) ==
    /\ ServiceAlive
    /\ Caller(c).pc = "idle"
    /\ Caller(c).calls < MaxServiceCalls
    /\ LET s == [svc EXCEPT !.caller[c].calls = @ + 1, !.caller[c].ret = "none"]
       IN  IF ~svc.started
           THEN svc' = IF o = "abort" THEN [s EXCEPT !.crashed = TRUE]
                       ELSE Returned(s, c, "false")
           ELSE /\ o = "false"
                /\ svc' = [s EXCEPT !.caller[c].pc = "stop_post",
                                    !.stop_requested = TRUE]

\* ... `_services[0]->post(stop_handler);`
S_stop_post(c) ==
    /\ ServiceAlive
    /\ Caller(c).pc = "stop_post"
    /\ svc' = [svc EXCEPT !.q = Append(@, "stop"),
                          !.caller[c].pc = IF svc.threads = 0 THEN "stop_wait"
                                           ELSE "stop_join",
                          !.caller[c].i = 1]

\* ... `thread.join()`: returns once the thread has left serviceThread; throws
\* std::system_error out of stop when the std::thread is not joinable
S_stop_join(c) ==
    /\ ServiceAlive
    /\ Caller(c).pc = "stop_join"
    /\ LET i == Caller(c).i
       IN  IF ~svc.joinable[i]
           THEN svc' = Returned(svc, c, "threw")
           ELSE /\ svc.worker[i] = "exited"
                /\ svc' = [svc EXCEPT !.joinable[i] = FALSE,
                                      !.worker[i] = "none",
                                      !.caller[c].i = i + 1,
                                      !.caller[c].pc = IF i = svc.threads THEN "stop_wait"
                                                       ELSE "stop_join"]

\* ... `_polling = false; while (isStarted()) yield; return true;`
S_stop_wait(c) ==
    /\ ServiceAlive
    /\ Caller(c).pc = "stop_wait"
    /\ ~svc.started
    /\ svc' = Returned([svc EXCEPT !.polling = FALSE], c, "true")

\* serviceThread of worker i: `bool polling = service->isPolling();
\* service->onThreadInit();`
W_init(i) ==
    /\ ServiceAlive
    /\ svc.worker[i] = "init"
    /\ svc' = [svc EXCEPT !.wpolling[i] = svc.polling,
                          !.onThreadInit = @ + 1,
                          !.worker[i] = IF svc.polling THEN "poll" ELSE "run"]

\* ... `io->poll();`
W_poll(i) ==
    /\ ServiceAlive
    /\ svc.worker[i] = "poll"
    /\ svc' = [Service_poll(svc, i) EXCEPT !.worker[i] = "idle"]

\* ... `service->onIdle(); } while (service->isStarted());`
W_idle(i) ==
    /\ ServiceAlive
    /\ svc.worker[i] = "idle"
    /\ svc' = [svc EXCEPT !.worker[i] = IF Service_loopTest(svc) THEN "poll" ELSE "cleanup"]

\* ... `io->run();` running one handler of its io_service
W_run(i) ==
    /\ ServiceAlive
    /\ svc.worker[i] = "run"
    /\ i = ServiceLoop
    /\ ~svc.io_stopped[i]
    /\ svc.q # <<>>
    /\ svc' = Service_runHandler(svc)

\* ... `io->run();` returning because the io_service is stopped, and `break;`
W_run_return(i) ==
    /\ ServiceAlive
    /\ svc.worker[i] = "run"
    /\ svc.io_stopped[i]
    /\ svc' = [svc EXCEPT !.worker[i] = "cleanup"]

\* ... `service->onThreadCleanup();` and the end of the thread
W_cleanup(i) ==
    /\ ServiceAlive
    /\ svc.worker[i] = "cleanup"
    /\ svc' = [svc EXCEPT !.onThreadCleanup = @ + 1, !.worker[i] = "exited"]

\* A user thread that is in no call of the Service drives the loop of a
\* Service without threads: it runs one handler of the io_service.
D_drive(c) ==
    /\ ServiceAlive
    /\ svc.threads = 0
    /\ Caller(c).pc = "idle"
    /\ ~svc.io_stopped[ServiceLoop]
    /\ svc.q # <<>>
    /\ svc' = Service_runHandler(svc)

InitService ==
    /\ ServerUnused
    /\ cli = Client_Client(0, 0)
    /\ cq = <<>>
    /\ chpc = CIdle
    /\ cwire = <<>>
    /\ caccepted = <<>>
    /\ crecv = <<>>
    /\ cupc = CUserIdle
    /\ ccalls = NoClientCalls
    /\ net = NetUnused
    /\ svc \in {Service_Service(n) : n \in 0..NumWorkers}
    /\ tsend = NoTimedSend
    /\ hmem = MemUnused

NextService ==
    \/ \E c \in CallerIds, p \in BOOLEAN, o \in AssertOutcomes :
          S_start(c, p, o) /\ UNCHANGED <<serverVars, clientVars, net, tsend, hmem>>
    \/ \E c \in CallerIds : S_start_post(c) /\ UNCHANGED <<serverVars, clientVars, net, tsend, hmem>>
    \/ \E c \in CallerIds : S_start_spawn(c) /\ UNCHANGED <<serverVars, clientVars, net, tsend, hmem>>
    \/ \E c \in CallerIds : S_start_wait(c) /\ UNCHANGED <<serverVars, clientVars, net, tsend, hmem>>
    \/ \E c \in CallerIds, o \in AssertOutcomes :
          S_stop(c, o) /\ UNCHANGED <<serverVars, clientVars, net, tsend, hmem>>
    \/ \E c \in CallerIds : S_stop_post(c) /\ UNCHANGED <<serverVars, clientVars, net, tsend, hmem>>
    \/ \E c \in CallerIds : S_stop_join(c) /\ UNCHANGED <<serverVars, clientVars, net, tsend, hmem>>
    \/ \E c \in CallerIds : S_stop_wait(c) /\ UNCHANGED <<serverVars, clientVars, net, tsend, hmem>>
    \/ \E i \in WorkerIds : W_init(i) /\ UNCHANGED <<serverVars, clientVars, net, tsend, hmem>>
    \/ \E i \in WorkerIds : W_poll(i) /\ UNCHANGED <<serverVars, clientVars, net, tsend, hmem>>
    \/ \E i \in WorkerIds : W_idle(i) /\ UNCHANGED <<serverVars, clientVars, net, tsend, hmem>>
    \/ \E i \in WorkerIds : W_run(i) /\ UNCHANGED <<serverVars, clientVars, net, tsend, hmem>>
    \/ \E i \in WorkerIds : W_run_return(i) /\ UNCHANGED <<serverVars, clientVars, net, tsend, hmem>>
    \/ \E i \in WorkerIds : W_cleanup(i) /\ UNCHANGED <<serverVars, clientVars, net, tsend, hmem>>
    \/ \E c \in CallerIds : D_drive(c) /\ UNCHANGED <<serverVars, clientVars, net, tsend, hmem>>

SpecService == InitService /\ [][NextService]_vars

\* what a worker thread does
WorkerStep(i) ==
    W_init(i) \/ W_poll(i) \/ W_idle(i) \/ W_run(i) \/ W_run_return(i) \/ W_cleanup(i)

\* what a user thread does inside Service::start and Service::stop
CallStep(c) ==
    \/ S_start_post(c) \/ S_start_spawn(c) \/ S_start_wait(c)
    \/ S_stop_post(c) \/ S_stop_join(c) \/ S_stop_wait(c)

\* Every thread that can take a step of the Service's code takes it in the
\* end; nothing obliges a user thread to call the Service or to drive a loop.
SpecServiceFair ==
    /\ SpecService
    /\ \A i \in WorkerIds :
          WF_vars(WorkerStep(i) /\ UNCHANGED <<serverVars, clientVars, net, tsend, hmem>>)
    /\ \A c \in CallerIds :
          WF_vars(CallStep(c) /\ UNCHANGED <<serverVars, clientVars, net, tsend, hmem>>)

----------------------------------------------------------------------------
(* Claims about the err functions *)

\* the codes that stand for an ordinary disconnect
DisconnectCodes ==
    {"connection_aborted", "connection_refused", "connection_reset", "eof", "operation_aborted"}

\* the codes a TLS object takes for an ordinary disconnect as well
TlsDisconnectCodes ==
    {"stream_truncated", "decryption_failed_or_bad_record_mac", "protocol_is_shutdown",
     "wrong_version_number"}

Benign(tls, code) == code \in DisconnectCodes \/ (tls /\ code \in TlsDisconnectCodes)

\* C22: whenever an error code is routed through the error path of a Session, a
\* Client or a Server, onErr is invoked, once, if and only if the code is not one
\* of connection_aborted, connection_refused, connection_reset, eof and
\* operation_aborted nor, for a TLS object, stream_truncated or one of the three
\* OpenSSL reasons
C22_OnErrIffNotBenign ==
    [][\A code \in ErrorCodes :
          /\ \A i \in SessionIds :
                SessionErr(i, code) =>
                    /\ sess'[i].onError = sess[i].onError + (IF Benign(sess[i].tls, code) THEN 0 ELSE 1)
          /\ ClientErr(code) =>
                cli'.onError = cli.onError + (IF Benign(cli.tls, code) THEN 0 ELSE 1)
          /\ ServerErr(code) =>
                srv'.onErr = srv.onErr + (IF Benign(FALSE, code) THEN 0 ELSE 1)]_vars

C22_Witness ==
    /\ \A i \in SessionIds : sess[i].onError = 1
    /\ cli.tls /\ cli.onError = 1
    /\ srv.onErr = 1

----------------------------------------------------------------------------
(* Claims about a failed read or write *)

\* the codes a failed read or write can carry
FailureCodes == IoErrors \cup {OperationAborted}

\* a read or a write of connected Session i completes with error e
SessionIoFails(i, e) ==
    /\ sess[i].connected
    /\ WriteComplete(i, <<e, 0>>) \/ ReadComplete(i, e, <<>>)

\* a read or a write of the ready Client completes with error e
ClientIoFails(e) ==
    /\ Client_isReady(cli)
    /\ CWriteComplete(<<e, 0>>) \/ CReadComplete(e, <<>>)

\* the Session issues no read and no write in this step
SessionArmsNothing(i) ==
    /\ Len(sess'[i].writes) <= Len(sess[i].writes)
    /\ sess'[i].reads <= sess[i].reads

\* the Client issues no read and no write in this step
ClientArmsNothing ==
    /\ Len(cli'.writes) <= Len(cli.writes)
    /\ Len(cli'.reads) <= Len(cli.reads)

\* the TLS Client is shutting its stream down and no disconnect call asked for
\* it: the error path of a read or a write did
ClientFailed == cli.tls /\ cli.shutdowns > 0 /\ ccalls.disconnect = 0

\* C23: a read or a write of a connected Session or Client that completes with
\* an error disconnects it: onDisconnect fires (for a TLS Client, once the
\* shutdown the handler issues has completed), no read and no write is issued
\* from then on, and onErr is called once for the error when it is not benign
\* and not at all when it is
C23_ErrorDisconnects ==
    [][/\ \A i \in SessionIds, e \in FailureCodes :
             SessionIoFails(i, e) =>
                 /\ ~sess'[i].connected
                 /\ sess'[i].onDisconnect = sess[i].onDisconnect + 1
                 /\ sess'[i].onError = sess[i].onError + (IF Benign(sess[i].tls, e) THEN 0 ELSE 1)
                 /\ SessionArmsNothing(i)
       /\ \A e \in FailureCodes :
             ClientIoFails(e) =>
                 /\ cli'.onError = cli.onError + (IF Benign(cli.tls, e) THEN 0 ELSE 1)
                 /\ ClientArmsNothing
                 /\ IF cli.tls THEN cli'.shutdowns = cli.shutdowns + 1
                    ELSE ~cli'.connected /\ cli'.onDisconnect = cli.onDisconnect + 1
       /\ ClientFailed => ClientArmsNothing]_vars

----------------------------------------------------------------------------
(* Claims about a Service *)

\* C24: every pass of start fires onStarted exactly once and every pass of stop
\* fires onStopped exactly once, also when start (or stop) is called from two
\* threads at once; start on a started Service and stop on a Service that is
\* not started return false and fire nothing: no call ends the process or
\* leaves by an exception
C24_StartedAndStoppedOnce ==
    /\ ~svc.crashed
    /\ \A c \in CallerIds : Caller(c).ret # "threw"
    /\ svc.onStarted = svc.onStopped + (IF svc.started THEN 1 ELSE 0)

\* the polling worker i leaves its loop in this step
WorkerLeaves(i) ==
    /\ svc.wpolling[i]
    /\ svc.worker[i] \in {"poll", "idle"}
    /\ svc'.worker[i] = "cleanup"

\* C25: in polling mode a worker thread alternates poll() and onIdle() from its
\* start on and leaves the loop, for onThreadCleanup, only when a stop of the
\* Service has been requested
C25_PollingUntilStopped ==
    [][\A i \in WorkerIds : WorkerLeaves(i) => svc.stop_requested]_vars

----------------------------------------------------------------------------
(* Claims about the writes of a Session *)

\* the write at the head of Session i's socket completes having transferred n bytes
Transferred(i, n) ==
    /\ sess[i].writes # <<>>
    /\ n \in 1..Len(Head(sess[i].writes))
    /\ WriteComplete(i, <<NoError, n>>)

\* C26: for every write of a Session that the socket reports as having
\* transferred n > 0 bytes, bytes_sent grows by n and onSend is fired once, also
\* when the Session was disconnected between the issue of the write and its
\* completion: no bytes are transferred without onSend or onErr hearing of it
C26_TransferredIsCounted ==
    [][/\ \A i \in SessionIds, n \in 1..MaxBytes :
             Transferred(i, n) =>
                 /\ sess'[i].bytes_sent = sess[i].bytes_sent + n
                 /\ hpc'[SessionLoop(i)].pc = "bytes_sent"
       /\ \A l \in LoopIds :
             WriteCounted(l) =>
                 sess'[hpc[l].sess].onSend = sess[hpc[l].sess].onSend + 1]_vars

\* C27: a Session that disconnects gives up its reference to its Server, and
\* does so before the registry of the Server removes the Session: a
\* disconnected Session holds no Server
C27_DisconnectedHoldsNoServer ==
    [][\A i \in SessionIds :
          /\ (sess[i].connected /\ ~sess'[i].connected) => ~sess'[i].server
          /\ (i \in srv.sessions /\ i \notin srv'.sessions) => ~sess[i].server]_vars

----------------------------------------------------------------------------
(* Claims about the registry of a Server *)

\* a thread holds _sessions_lock shared: multicast is visiting the Sessions
ReaderHoldsLock == upc.mcast # {}

\* C28: the registry of the Server changes, by registerSession or by
\* unregisterSession, only under the exclusive _sessions_lock: never while a
\* reader (multicast, findSession, disconnectAll) holds the lock shared
C28_RegistryChangesUnderLock ==
    [][srv'.sessions # srv.sessions => ~ReaderHoldsLock]_vars

----------------------------------------------------------------------------
(* Claims about sendAsync and trySend of a Session *)

\* a sendAsync on Session i appends its bytes in this step
Appends(i) == Len(accepted'[i]) > Len(accepted[i])

\* a handler is put on the loop of Session i in this step
Schedules(i) == Len(ioq'[SessionLoop(i)]) > Len(ioq[SessionLoop(i)])

\* C29: sendAsync of a Session schedules trySend only when the main and the
\* flush buffer were both empty right before it appended; when one of them held
\* bytes it appends and schedules nothing
C29_SchedulesOnlyWhenBothEmpty ==
    [][\A i \in SessionIds :
          Appends(i) /\ Schedules(i) =>
              sess[i].send_buff_main = <<>> /\ sess[i].send_buff_flush = <<>>]_vars

----------------------------------------------------------------------------
(* One Session and the threads that send through it: the loop of the Session
   runs the handlers posted to it, and the socket completes the write that is
   outstanding *)

InitSend ==
    /\ sess \in [SessionIds -> {Session_Session(sl, 0) : sl \in SendLimits}]
    /\ \A i \in SessionIds : i # 1 => sess[i] = Session_Session(0, 0)
    /\ srv = Server_startHandler(Server_Server(1))
    /\ ioq = [l \in LoopIds |-> <<>>]
    /\ hpc = [l \in LoopIds |-> Idle]
    /\ wire = [i \in SessionIds |-> <<>>]
    /\ accepted = [i \in SessionIds |-> <<>>]
    /\ upc = UserIdle
    /\ calls = NoCalls
    /\ mlog = <<>>
    /\ ClientUnused

\* the write outstanding on the socket of Session 1 completes without error
WriteSucceeds ==
    \E o \in (IF sess[1].writes = <<>> THEN {} ELSE WriteOutcomes(sess[1])) :
        o[1] = NoError /\ WriteComplete(1, o)

\* the write outstanding on the socket of Session 1 completes with an error
WriteFails ==
    \E o \in (IF sess[1].writes = <<>> THEN {} ELSE WriteOutcomes(sess[1])) :
        o[1] # NoError /\ WriteComplete(1, o)

\* a step of the worker thread of a loop: the handler at the head of its queue
\* or the rest of the handler it is in
SendLoopStep ==
    \/ RunTrySend(1)
    \/ RunDisconnect(1)
    \/ RunUnregister
    \/ \E l \in LoopIds : WriteCounted(l)

NextSend ==
    \/ AcceptComplete(NoError) /\ UNCHANGED <<clientVars, net, svc, tsend, hmem>>
    \/ \E n \in 1..MaxPayload : U_sendAsync(1, n) /\ UNCHANGED <<clientVars, net, svc, tsend, hmem>>
    \/ U_sendAsync_locked /\ UNCHANGED <<clientVars, net, svc, tsend, hmem>>
    \/ U_disconnect(1) /\ UNCHANGED <<clientVars, net, svc, tsend, hmem>>
    \/ RunTrySend(1) /\ UNCHANGED <<clientVars, net, svc, tsend, hmem>>
    \/ RunDisconnect(1) /\ UNCHANGED <<clientVars, net, svc, tsend, hmem>>
    \/ RunUnregister /\ UNCHANGED <<clientVars, net, svc, tsend, hmem>>
    \/ WriteSucceeds /\ UNCHANGED <<clientVars, net, svc, tsend, hmem>>
    \/ WriteFails /\ UNCHANGED <<clientVars, net, svc, tsend, hmem>>
    \/ \E l \in LoopIds : WriteCounted(l) /\ UNCHANGED <<clientVars, net, svc, tsend, hmem>>

SpecSend == InitSend /\ [][NextSend]_vars

\* io_service::run keeps running the handlers of its queue, a thread inside
\* sendAsync goes on, and a write that is outstanding completes
SpecSendFair ==
    /\ SpecSend
    /\ WF_vars(SendLoopStep /\ UNCHANGED <<clientVars, net, svc, tsend, hmem>>)
    /\ WF_vars(U_sendAsync_locked /\ UNCHANGED <<clientVars, net, svc, tsend, hmem>>)
    /\ WF_vars(WriteSucceeds /\ UNCHANGED <<clientVars, net, svc, tsend, hmem>>)

----------------------------------------------------------------------------
(* Claims about the bytes a Session was handed *)

\* C30: as long as a Session stays connected and its writes complete without
\* error, every byte sendAsync accepted is eventually written to the socket,
\* however the calls of sendAsync interleave with the completions: no bytes are
\* left in the main buffer with no write outstanding and no trySend scheduled
C30_AcceptedIsWritten ==
    \A k \in 1..MaxBytes :
        (Len(accepted[1]) >= k) ~> (Len(wire[1]) >= k \/ ~sess[1].connected)

C30_Witness ==
    /\ sess[1].connected
    /\ Len(accepted[1]) = MaxBytes
    /\ wire[1] = accepted[1]
    /\ calls.send = MaxSendCalls
    /\ sess[1].onSend = MaxBytes

\* ---------------------------------------------------------------------------
\* Accept loop of the Server (tcp_server.cxx 179-212, 262-266).

AcceptKinds == {"accepted", "accept_aborted"} \cup AcceptErrors

\* The async_accept operations whose handler has not run yet: those armed on
\* the acceptor and those performed whose completion is queued.
AcceptsOutstanding ==
    srv.accepting
      + Cardinality({k \in DOMAIN ioq[ServerLoop] : ioq[ServerLoop][k].kind \in AcceptKinds})

AcceptHandlerRuns ==
    /\ ioq[ServerLoop] # <<>>
    /\ Head(ioq[ServerLoop]).kind \in AcceptKinds
    /\ ioq' = Pop(ioq, ServerLoop)

\* C31: while the Server is started, the handler of every accept completion,
\* successful or failed, arms exactly one new accept; at most one accept is
\* outstanding at any time; the Session a successful completion registers is
\* the one whose socket was accepted, which it connects; and a stopped Server
\* has no accept armed.
C31_AcceptRearmedOnce ==
    /\ AcceptsOutstanding <= 1
    /\ [][ /\ AcceptsOutstanding' <= 1
           /\ (AcceptHandlerRuns /\ srv.started)
                 => /\ srv'.accepting = srv.accepting + 1
                    /\ AcceptsOutstanding' = 1
           /\ (AcceptHandlerRuns /\ Head(ioq[ServerLoop]).kind = "accepted")
                 => LET i == Head(ioq[ServerLoop]).sess
                    IN  /\ srv'.sessions \ srv.sessions \subseteq {i}
                        /\ srv.started => /\ i \in srv'.sessions
                                          /\ sess'[i].open /\ sess'[i].connected
           /\ (AcceptHandlerRuns /\ Head(ioq[ServerLoop]).kind # "accepted")
                 => srv'.sessions = srv.sessions
           /\ ~srv'.started => srv'.accepting = 0
        ]_vars

\* A Server that was stopped and started again has had a failed accept, has
\* registered a Session since, and has the next accept armed.
C31_Witness ==
    /\ srv.started /\ srv.onStop > 0
    /\ srv.onErr > 0
    /\ srv.sessions # {}
    /\ srv.accepting = 1

\* ---------------------------------------------------------------------------
\* HandlerMemory: alloc and free called by the one thread that owns it.

FreshPtr == CHOOSE p \in HeapPtrs \cup {MaxHeapLive + 1} :
               /\ \A k \in DOMAIN hmem.live : hmem.live[k].ptr # p
               /\ \A r \in HeapPtrs : r < p => \E k \in DOMAIN hmem.live : hmem.live[k].ptr = r

M_alloc(size) ==
    /\ hmem.ops < MaxMemOps
    /\ FreshPtr \in HeapPtrs
    /\ LET r == HandlerMemory_alloc(hmem.used, size, FreshPtr)
       IN  hmem' = [hmem EXCEPT !.used = r[1],
                                !.live = Append(@, [ptr |-> r[2], size |-> size]),
                                !.ops = @ + 1,
                                !.op = [kind |-> "alloc", size |-> size, ptr |-> r[2],
                                        was_used |-> hmem.used]]
    /\ UNCHANGED <<serverVars, clientVars, net, svc, tsend>>

\* free of an allocation that is live.
M_free(k) ==
    /\ hmem.ops < MaxMemOps
    /\ k \in DOMAIN hmem.live
    /\ LET a == hmem.live[k]
       IN  hmem' = [hmem EXCEPT !.used = HandlerMemory_free(hmem.used, a.ptr),
                                !.live = [j \in 1..(Len(@) - 1) |->
                                             IF j < k THEN @[j] ELSE @[j + 1]],
                                !.ops = @ + 1,
                                !.op = [kind |-> "free", size |-> a.size, ptr |-> a.ptr,
                                        was_used |-> hmem.used]]
    /\ UNCHANGED <<serverVars, clientVars, net, svc, tsend>>

InitMemory ==
    /\ ServerUnused
    /\ ClientUnused

NextMemory ==
    \/ \E size \in 0..(SlabSize + 1) : M_alloc(size)
    \/ \E k \in 1..(MaxHeapLive + 1) : M_free(k)

SpecMemory == InitMemory /\ [][NextMemory]_vars

InSlab == {k \in DOMAIN hmem.live : hmem.live[k].ptr = SlabPtr}

\* C33: alloc(n) of a HandlerMemory of size S returns the inline slab exactly
\* when the slab is free and n < S, and a block of the heap otherwise; at most
\* one live allocation is in the slab, and the used flag says whether one is;
\* freeing the slab's pointer marks the slab free and freeing a block of the
\* heap leaves the flag as it was.
C33_SlabIffFreeAndSmaller ==
    /\ hmem.op.kind = "alloc"
          => /\ hmem.op.ptr = SlabPtr <=> (~hmem.op.was_used /\ hmem.op.size < SlabSize)
             /\ hmem.op.ptr # SlabPtr => hmem.op.ptr \in HeapPtrs /\ hmem.used = hmem.op.was_used
    /\ Cardinality(InSlab) <= 1
    /\ hmem.used <=> InSlab # {}
    /\ \A j, k \in DOMAIN hmem.live : j # k => hmem.live[j].ptr # hmem.live[k].ptr
    /\ hmem.op.kind = "free"
          => IF hmem.op.ptr = SlabPtr THEN ~hmem.used ELSE hmem.used = hmem.op.was_used

\* The slab is taken, a request that would fit it went to the heap, and a
\* block of the heap was freed since.
C33_Witness ==
    /\ hmem.used
    /\ \E k \in DOMAIN hmem.live : hmem.live[k].ptr # SlabPtr /\ hmem.live[k].size < SlabSize
    /\ hmem.op.kind = "free" /\ hmem.op.ptr # SlabPtr

\* ---------------------------------------------------------------------------
\* Session::send with a timeout, called by a user thread while the Session's
\* loop runs its timer handler and its write handler.

MaxTimedSends == 2
MaxTimedPayload == 2

Completion(kind, code, n) == [kind |-> kind, code |-> code, n |-> n]

\* _socket.cancel(); timer.cancel(): every operation still outstanding on the
\* socket, the async_read_some of tryReceive included, and the timer complete
\* with operation_aborted.
TimedSend_cancel(t, s) ==
    LET a == IF t.write = "armed"
             THEN [t EXCEPT !.write = "queued",
                            !.q = Append(@, Completion("write", OperationAborted, 0))]
             ELSE t
        b == [a EXCEPT !.read_cancelled = @ \/ (s.open /\ s.reads > 0)]
    IN  IF b.timer = "armed"
        THEN [b EXCEPT !.timer = "queued",
                       !.q = Append(@, Completion("timer", OperationAborted, 0))]
        ELSE b

\* handler(code) of Session::send
TimedSend_handler(t, s, who, code) ==
    IF t.done = 0
    THEN TimedSend_cancel([t EXCEPT !.done = 1, !.err = code, !.first = who], s)
    ELSE [t EXCEPT !.done = @ + 1]

TS_send(i, size) ==
    /\ Alive
    /\ tsend.pc \in {"idle", "returned"}
    /\ tsend.hpc = "idle" /\ tsend.q = <<>>
    /\ tsend.calls < MaxTimedSends
    /\ tsend' = IF ~sess[i].connected
                THEN [NoTimedSend EXCEPT !.pc = "returned", !.sess = i, !.size = size,
                                         !.read_cancelled = tsend.read_cancelled,
                                         !.calls = tsend.calls + 1]
                ELSE [NoTimedSend EXCEPT !.pc = "wait", !.sess = i, !.size = size,
                                         !.timer = "armed", !.write = "armed",
                                         !.read_cancelled = tsend.read_cancelled,
                                         !.calls = tsend.calls + 1]
    /\ UNCHANGED <<serverVars, clientVars, net, svc, hmem>>

TS_timerExpires ==
    /\ Alive
    /\ tsend.timer = "armed"
    /\ tsend' = [tsend EXCEPT !.timer = "queued",
                              !.q = Append(@, Completion("timer", NoError, 0))]
    /\ UNCHANGED <<serverVars, clientVars, net, svc, hmem>>

TimedWriteOutcomes(t, s) ==
    IF s.open
    THEN {<<NoError, n>> : n \in 1..t.size} \cup {<<e, 0>> : e \in IoErrors}
    ELSE {<<OperationAborted, 0>>}

TS_writePerformed(o) ==
    /\ Alive
    /\ tsend.write = "armed"
    /\ o \in TimedWriteOutcomes(tsend, sess[tsend.sess])
    /\ tsend' = [tsend EXCEPT !.write = "queued",
                              !.q = Append(@, Completion("write", o[1], o[2]))]
    /\ UNCHANGED <<serverVars, clientVars, net, svc, hmem>>

\* timer.async_wait's handler: handler(err ? err : timed_out)
TS_runTimer ==
    /\ Alive
    /\ tsend.hpc = "idle" /\ hpc[SessionLoop(tsend.sess)] = Idle
    /\ tsend.q # <<>> /\ Head(tsend.q).kind = "timer"
    /\ LET t == [tsend EXCEPT !.q = Tail(@), !.timer = "ran"]
           code == IF t.err # NoError THEN t.err ELSE TimedOut
       IN  tsend' = TimedSend_handler(t, sess[t.sess], "timer", code)
    /\ UNCHANGED <<serverVars, clientVars, net, svc, hmem>>

\* async_write_some's handler, first statement: handler(code)
TS_runWrite ==
    /\ Alive
    /\ tsend.hpc = "idle" /\ hpc[SessionLoop(tsend.sess)] = Idle
    /\ tsend.q # <<>> /\ Head(tsend.q).kind = "write"
    /\ LET c == Head(tsend.q)
           t == [tsend EXCEPT !.q = Tail(@), !.reported = c.n]
       IN  tsend' = [TimedSend_handler(t, sess[t.sess], "write", c.code) EXCEPT !.hpc = "assign"]
    /\ UNCHANGED <<serverVars, clientVars, net, svc, hmem>>

\* async_write_some's handler, second statement: num_bytes_sent = write. The
\* variable is a local of send: once send has returned the store goes to a
\* frame that no longer exists.
TS_assign(o) ==
    /\ Alive
    /\ tsend.hpc = "assign"
    /\ IF tsend.pc = "wait"
       THEN /\ o = "nothing"
            /\ tsend' = [tsend EXCEPT !.hpc = "idle", !.write = "ran", !.assigned = TRUE,
                                      !.num_bytes_sent = tsend.reported]
            /\ srv' = srv
       ELSE /\ tsend' = [tsend EXCEPT !.hpc = "idle", !.write = "ran"]
            /\ srv' = IF o = "fault" THEN [srv EXCEPT !.crashed = TRUE] ELSE srv
    /\ UNCHANGED <<sess, ioq, hpc, wire, accepted, upc, calls, mlog>>
    /\ UNCHANGED <<clientVars, net, svc, hmem>>

\* cv.wait returns with done = 2; the rest of send. num_bytes_sent has no
\* initial value: read before the write handler's store it holds anything.
TS_wake(v) ==
    /\ Alive
    /\ tsend.pc = "wait"
    /\ tsend.done = 2
    /\ v \in IF tsend.assigned THEN {tsend.num_bytes_sent} ELSE 0..MaxTimedPayload
    /\ LET i == tsend.sess
           bad == tsend.err \notin {NoError, TimedOut}
           a == IF v > 0
                THEN [sess[i] EXCEPT !.bytes_sent = @ + v, !.onSend = @ + 1]
                ELSE sess[i]
           b == IF bad THEN Session_errVirtual(a, tsend.err) ELSE a
       IN  /\ sess' = [sess EXCEPT ![i] = b]
           /\ srv' = [srv EXCEPT !.bytes_sent = @ + v]
           /\ ioq' = IF bad /\ Session_disconnect(b)
                     THEN Post(ioq, SessionLoop(i), Closure("disconnect", i))
                     ELSE ioq
           /\ tsend' = [tsend EXCEPT !.pc = "returned", !.ret = v, !.disconnects = bad]
    /\ UNCHANGED <<hpc, wire, accepted, upc, calls, mlog>>
    /\ UNCHANGED <<clientVars, net, svc, hmem>>

\* The async_read_some that _socket.cancel() reached completes with
\* operation_aborted: tryReceive's handler calls err and disconnect.
TS_readAborted ==
    /\ Alive
    /\ tsend.read_cancelled
    /\ tsend.hpc = "idle"
    /\ ReadComplete(tsend.sess, OperationAborted, <<>>)
    /\ tsend' = [tsend EXCEPT !.read_cancelled = FALSE]
    /\ UNCHANGED <<clientVars, net, svc, hmem>>

InitTimedSend ==
    /\ sess = [i \in SessionIds |-> Session_Session(0, 0)]
    /\ srv = Server_startHandler(Server_Server(NumSessions))
    /\ ioq = [l \in LoopIds |-> <<>>]
    /\ hpc = [l \in LoopIds |-> Idle]
    /\ wire = [i \in SessionIds |-> <<>>]
    /\ accepted = [i \in SessionIds |-> <<>>]
    /\ upc = UserIdle
    /\ calls = NoCalls
    /\ mlog = <<>>
    /\ ClientUnused

NextTimedSend ==
    \/ Alive /\ AcceptComplete(NoError) /\ UNCHANGED <<clientVars, net, svc, tsend, hmem>>
    \/ \E i \in SessionIds : \E size \in 1..MaxTimedPayload : TS_send(i, size)
    \/ TS_timerExpires
    \/ \E n \in 0..MaxTimedPayload : \E e \in {NoError, OperationAborted} \cup IoErrors :
          TS_writePerformed(<<e, n>>)
    \/ TS_runTimer
    \/ TS_runWrite
    \/ \E o \in DanglingOutcomes : TS_assign(o)
    \/ \E v \in 0..MaxTimedPayload : TS_wake(v)
    \/ TS_readAborted
    \/ \E i \in SessionIds : Alive /\ RunDisconnect(i) /\ UNCHANGED <<clientVars, net, svc, tsend, hmem>>
    \/ Alive /\ RunUnregister /\ UNCHANGED <<clientVars, net, svc, tsend, hmem>>

SpecTimedSend == InitTimedSend /\ [][NextTimedSend]_vars

\* C32: a Session::send with a non-zero timeout returns only after both the
\* write handler and the timer handler have run to their end; the handler
\* that ran first fixed the error code; the count returned is the count the
\* write completion reported; a send that ended in a pure timeout leaves the
\* Session connected, and one that ended in any other error disconnects it.
C32_TimedSendReturnsAfterBoth ==
    (tsend.pc = "returned" /\ tsend.timer # "none")
       => /\ tsend.timer = "ran" /\ tsend.write = "ran" /\ tsend.hpc = "idle"
          /\ tsend.first = "timer" => tsend.err = TimedOut
          /\ tsend.ret = tsend.reported
          /\ tsend.err = TimedOut => sess[tsend.sess].connected
          /\ tsend.err \notin {NoError, TimedOut} => tsend.disconnects

InStart(c) == Caller(c).pc \in {"start_post", "start_spawn", "start_wait"}

\* C34: Service::start terminates in every configuration: a call that went
\* past the test of isStarted returns, also when the Service has no thread
\* of its own.
C34_StartTerminates ==
    \A c \in CallerIds : InStart(c) ~> (Caller(c).pc = "idle")

\* ---------------------------------------------------------------------------
\* The Client's send buffers across connections (tcp_client.cxx 130-165,
\* 183-199, 404-438, 497-504).

ClientEstablishes == ~cli.connected /\ cli'.connected

\* C35: whenever a connection of the Client is established, send-main and
\* send-flush are empty and bytes_pending is 0, however sendAsync and
\* disconnect interleaved before, so that no byte accepted during an earlier
\* connection is left to be transmitted on this one.
C35_BuffersEmptyWhenEstablished ==
    [][ ClientEstablishes
           => /\ cli'.send_buff_main = <<>>
              /\ cli'.send_buff_flush = <<>>
              /\ cli'.bytes_pending = 0 ]_vars

\* ---------------------------------------------------------------------------
\* Completions of operations of an earlier connection of the Client
\* (tcp_client.cxx 363-402, 466-492, 183-241).

\* The handler of the oldest read, or of the oldest write, runs, and the
\* operation was issued during a connection before the present one.
StaleReadRuns ==
    /\ cli.reads # <<>> /\ cli'.reads = Tail(cli.reads)
    /\ Head(cli.reads).conn < cli.established

StaleWriteRuns ==
    /\ cli.writes # <<>> /\ cli'.writes = Tail(cli.writes)
    /\ Head(cli.writes).conn < cli.established

\* C36: the completion handler of a read or write that was issued during one
\* connection and cancelled by disconnect changes nothing of a later
\* connection and does not disconnect it.
C36_StaleCompletionIsInert ==
    [][ /\ (cli.connected /\ StaleReadRuns) => cli' = [cli EXCEPT !.reads = Tail(@)]
        /\ (cli.connected /\ StaleWriteRuns) => cli' = [cli EXCEPT !.writes = Tail(@)]
      ]_vars

\* ---------------------------------------------------------------------------
\* The send lock and the user callbacks (tcp_session.cxx 195-212,
\* tcp_client.cxx 409-425).

\* The step from taking _send_lock in sendAsync to releasing it.
SessionSendLockHeld == upc.send # 0 /\ upc'.send = 0

ClientSendLockHeld == cupc.send /\ ~cupc'.send

\* C37: sendAsync of a Session and of a Client invokes no user callback
\* (onErr, onSend, onEmpty) while it holds the send lock.
C37_NoCallbackUnderSendLock ==
    [][ /\ SessionSendLockHeld
           => LET i == upc.send
              IN  /\ sess'[i].onError = sess[i].onError
                  /\ sess'[i].onSend = sess[i].onSend
        /\ ClientSendLockHeld
           => /\ cli'.onError = cli.onError
              /\ cli'.onSend = cli.onSend
      ]_vars

\* ---------------------------------------------------------------------------
\* Session::connect run by the accept handler on the Server's loop, while the
\* read it arms completes on the Session's loop (tcp_session.cxx 54-74,
\* 15-30; service.hxx 87-89).

\* Session::connect up to and including tryReceive()
Session_connectBegin(s) ==
    Session_tryReceive(
        [s EXCEPT !.receive_buff = RecvBufSize,
                  !.bytes_sending = 0, !.bytes_sent = 0,
                  !.bytes_pending = 0, !.bytes_received = 0,
                  !.connected = TRUE])

\* ... onConnect(), and then _server->onConnect(session)
Session_connectEnd(s) == [s EXCEPT !.onConnect = @ + 1]

InConnect(i) == [pc |-> "connect", sess |-> i, data |-> <<>>, err |-> NoError, tmp |-> 0]

\* async_handler of Server::accept without error: registerSession() and the
\* first part of _session->connect()
ConnectBegin ==
    /\ hpc[ServerLoop] = Idle
    /\ srv.accepting > 0
    /\ srv.acceptor_open
    /\ srv.session # 0
    /\ LET i == srv.session
       IN  /\ sess' = [sess EXCEPT ![i] = Session_connectBegin([@ EXCEPT !.open = TRUE])]
           /\ srv' = Server_registerSession([srv EXCEPT !.accepting = @ - 1])
           /\ hpc' = [hpc EXCEPT ![ServerLoop] = InConnect(i)]
    /\ UNCHANGED <<ioq, wire, accepted, upc, calls, mlog>>

\* ... the rest of connect(), and accept()
ConnectEnd ==
    /\ hpc[ServerLoop].pc = "connect"
    /\ LET i == hpc[ServerLoop].sess
       IN  sess' = [sess EXCEPT ![i] = Session_connectEnd(@)]
    /\ srv' = Server_accept([srv EXCEPT !.onConnect = @ + 1])
    /\ hpc' = [hpc EXCEPT ![ServerLoop] = Idle]
    /\ UNCHANGED <<ioq, wire, accepted, upc, calls, mlog>>

InitConnect ==
    /\ sess = [i \in SessionIds |-> Session_Session(0, 0)]
    /\ srv = Server_startHandler(Server_Server(NumSessions))
    /\ ioq = [l \in LoopIds |-> <<>>]
    /\ hpc = [l \in LoopIds |-> Idle]
    /\ wire = [i \in SessionIds |-> <<>>]
    /\ accepted = [i \in SessionIds |-> <<>>]
    /\ upc = UserIdle
    /\ calls = NoCalls
    /\ mlog = <<>>
    /\ ClientUnused

NextConnect ==
    \/ ConnectBegin /\ UNCHANGED <<clientVars, net, svc, tsend, hmem>>
    \/ ConnectEnd /\ UNCHANGED <<clientVars, net, svc, tsend, hmem>>
    \/ \E i \in SessionIds : \E o \in ReadOutcomes(sess[i]) :
          ReadComplete(i, o[1], Zeros(o[2])) /\ UNCHANGED <<clientVars, net, svc, tsend, hmem>>
    \/ \E l \in LoopIds : ReadCounted(l) /\ UNCHANGED <<clientVars, net, svc, tsend, hmem>>
    \/ \E l \in LoopIds : ReadResume(l) /\ UNCHANGED <<clientVars, net, svc, tsend, hmem>>
    \/ hpc[ServerLoop] = Idle /\ RunUnregister /\ UNCHANGED <<clientVars, net, svc, tsend, hmem>>

SpecConnect == InitConnect /\ [][NextConnect]_vars

\* C38: onReceived of a Session is not invoked before onConnect of that
\* Session and onConnect of the Server for it have been, whichever loop the
\* Session is bound to.
C38_OnConnectBeforeOnReceived ==
    \A l \in LoopIds :
       hpc[l].pc = "onReceived"
          => /\ sess[hpc[l].sess].onConnect > 0
             /\ hpc[ServerLoop] # InConnect(hpc[l].sess)

\* C39: the Client's onDisconnect has never been invoked more often than its
\* onConnect, also after a connect attempt that failed.
C39_DisconnectsWithinConnects == cli.onDisconnect <= cli.onConnect

\* ---------------------------------------------------------------------------
\* The synchronous connect of the Client and of the TLS Client
\* (tcp_client.cxx 91-123, service.cxx 275-318, 226-236).

\* connect returns false from an attempt it made
SyncConnectFails ==
    /\ cupc'.connect = "idle" /\ cupc'.ret = "false" /\ cupc'.tried
    /\ cupc.connect # "idle" \/ ccalls'.connectSync # ccalls.connectSync

\* the last attempt to connect was made by connect, and it returned false
SyncConnectFailed ==
    /\ cupc.connect = "idle" /\ cupc.ret = "false" /\ cupc.tried
    /\ ccalls.connect = 0

\* C40: when the synchronous connect of the Client or of the TLS Client
\* returns false, the Client is neither connected nor handshaked, and
\* onDisconnect is not invoked once more for that attempt.
C40_FailedConnectLeavesDisconnected ==
    [][ /\ SyncConnectFails => ~cli'.connected /\ ~cli'.handshaked
        /\ (SyncConnectFailed /\ cupc'.connect = "idle" /\ cupc'.ret = "false")
              => cli'.onDisconnect = cli.onDisconnect
      ]_vars

====
